---- MODULE Spec2Model ----
(***************************************************************************)
(* The transactional metadata layer of convex-fs: the files, blobs and     *)
(* uploads tables, the mutations that change them (commitFiles, transact,  *)
(* restore) and the background sweep that reclaims orphaned blobs.         *)
(*                                                                         *)
(* Every Convex mutation and query runs as one serializable transaction,   *)
(* so each is one atomic step here; a throw inside a mutation aborts the   *)
(* transaction and none of its writes are kept.  An action (the sweeps)    *)
(* is a sequence of such steps and other calls may run between them.       *)
(***************************************************************************)
EXTENDS Integers, Sequences, FiniteSets, TLC

\* ------------------------------------------------------------------------
\* Universe of the model
\* ------------------------------------------------------------------------
Paths == {"/a.txt", "/b.txt", "/temp"}
\* The paths the callers of the general specification name.
Paths2 == {"/a.txt", "/b.txt"}
BlobIds == {"blobA", "blobB"}
Clients == {"c1", "c2"}

\* Longest journal handed to transact, and longest list handed to commitFiles.
MaxOps == 2
MaxEntries == 2
\* Longest journal of the chained-move scenarios.
MaxMoves == 3
\* Largest value of the clock.
MaxTime == 3
\* Document ids available to each table.
MaxFileRows == 3
MaxBlobRows == 3
MaxUploadRows == 2

FileIdPool == 1..MaxFileRows
BlobRowIdPool == 1..MaxBlobRows
UploadIdPool == 1..MaxUploadRows

\* dest.basis / entry.basis: absent, null, or a blobId.
NoBasis == "undefined"
NullBasis == "null"
BasisValues == {NoBasis, NullBasis} \cup BlobIds

\* An optional number that is absent.
Undefined == -1

\* Upload metadata (contentType and size): absent until a proxy records it.
NoMeta == "none"
Metas == {"text/plain:100"}
Metas2 == {"text/plain:100", "image/png:7"}

VARIABLES
    files,      \* table files: rows [id, path, blobId, expiresAt]
    blobs,      \* table blobs: rows [id, blobId, meta, refCount, updatedAt]
    uploads,    \* table uploads: rows [id, blobId, expiresAt, meta]
    store,      \* the blob store: the keys (blobIds) that hold an object
    config,     \* table config: the row keyed "storage", or NoConfig
    now,        \* Date.now()
    bgc,        \* the Blob GC sweep in progress
    ugc,        \* the Upload GC sweep in progress
    fgc,        \* the File GC sweep in progress
    resp,       \* per client: the outcome of its last call, until it is read
    view        \* per client: the operation it built from what stat returned

dbVars == <<files, blobs, uploads>>
gcVars == <<store, config, bgc, ugc, fgc>>
vars == <<files, blobs, uploads, store, config, now, bgc, ugc, fgc, resp, view>>

\* ------------------------------------------------------------------------
\* Errors thrown by the handlers
\* ------------------------------------------------------------------------
NoErr == [code |-> "none", path |-> "", expected |-> "", found |-> "", at |-> 0]

Err(code, path, expected, found, at) ==
    [code |-> code, path |-> path, expected |-> expected, found |-> found, at |-> at]

\* ------------------------------------------------------------------------
\* A transaction in progress: the tables as the handler sees them (its own
\* writes included), the error that aborted it, and whether the model ran
\* out of document ids.
\* ------------------------------------------------------------------------
Tx(fs, bs, us, heldBlobRows) ==
    [files |-> fs, blobs |-> bs, uploads |-> us, err |-> NoErr, full |-> FALSE,
     held |-> heldBlobRows, heldFiles |-> {}]

Throw(t, e) == [t EXCEPT !.err = e]

The(S) == CHOOSE x \in S : TRUE

Ids(rows) == {r.id : r \in rows}

\* A new document id: never one that is in use or that a running sweep holds.
HasFreshId(pool, used) == pool \ used # {}
FreshId(pool, used) == CHOOSE i \in pool \ used : \A j \in pool \ used : i <= j

filesByPath(fs, p) == {f \in fs : f.path = p}
blobsByBlobId(bs, b) == {x \in bs : x.blobId = b}
uploadsByBlobId(us, b) == {u \in us : u.blobId = b}

\* .unique() throws when the index holds more than one matching row.
NotUnique(rows) == Cardinality(rows) > 1
NotUniqueErr(key) == Err("NOT_UNIQUE", key, "", "", 0)

\* ------------------------------------------------------------------------
\* transact
\* ------------------------------------------------------------------------
\* The operations the argument validator admits; any other op (setAttributes
\* among them) is rejected before the handler runs.
OpKinds == {"move", "copy", "delete"}
opValidator(op) == op.op \in OpKinds

\* Variant: the patch writes refCount and leaves updatedAt as it was.
patchRefCountKeepTime(t, blobId, delta, time) ==
    LET rows == blobsByBlobId(t.blobs, blobId) IN
    IF NotUnique(rows) THEN Throw(t, NotUniqueErr(blobId))
    ELSE IF rows = {} THEN t
    ELSE LET blob == The(rows) IN
         [t EXCEPT !.blobs = (@ \ {blob}) \cup {[blob EXCEPT !.refCount = @ + delta]}]

\* ctx.db.patch(blob._id, {refCount: blob.refCount + delta, updatedAt: now})
\* behind its lookup "query blobs by blobId, unique, if (blob)".
patchRefCount(t, blobId, delta, time) ==
    LET rows == blobsByBlobId(t.blobs, blobId) IN
    IF NotUnique(rows) THEN Throw(t, NotUniqueErr(blobId))
    ELSE IF rows = {} THEN t
    ELSE LET blob == The(rows) IN
         [t EXCEPT !.blobs = (@ \ {blob}) \cup
              {[blob EXCEPT !.refCount = @ + delta, !.updatedAt = time]}]

\* ctx.db.insert("files", {path, blobId})
insertFile(t, path, blobId) ==
    IF ~HasFreshId(FileIdPool, Ids(t.files) \cup t.heldFiles) THEN [t EXCEPT !.full = TRUE]
    ELSE [t EXCEPT !.files = @ \cup
              {[id |-> FreshId(FileIdPool, Ids(t.files) \cup t.heldFiles), path |-> path,
                blobId |-> blobId, expiresAt |-> Undefined]}]

\* A Phase 1 iteration that checks the source predicate only (used to probe C8).
checkOpSourceOnly(fs, op, k) ==
    LET srows == filesByPath(fs, op.source.path) IN
    IF NotUnique(srows) THEN [NotUniqueErr(op.source.path) EXCEPT !.at = k]
    ELSE IF srows = {} THEN
        Err("SOURCE_NOT_FOUND", op.source.path, op.source.blobId, "null", k)
    ELSE IF The(srows).blobId # op.source.blobId THEN
        Err("SOURCE_CHANGED", op.source.path, op.source.blobId, The(srows).blobId, k)
    ELSE NoErr

\* Phase 1, one iteration: the source predicate and, for move and copy, the
\* dest predicate, read from the tables as they are when the call starts.
checkOp(fs, op, k) ==
    LET srows == filesByPath(fs, op.source.path)
        drows == filesByPath(fs, op.dest.path)
    IN
    IF NotUnique(srows) THEN [NotUniqueErr(op.source.path) EXCEPT !.at = k]
    ELSE IF srows = {} THEN
        Err("SOURCE_NOT_FOUND", op.source.path, op.source.blobId, "null", k)
    ELSE IF The(srows).blobId # op.source.blobId THEN
        Err("SOURCE_CHANGED", op.source.path, op.source.blobId, The(srows).blobId, k)
    ELSE IF op.op \notin {"move", "copy"} THEN NoErr
    ELSE IF NotUnique(drows) THEN [NotUniqueErr(op.dest.path) EXCEPT !.at = k]
    ELSE IF op.dest.basis = NoBasis THEN NoErr
    ELSE IF op.dest.basis = NullBasis THEN
        IF drows # {}
        THEN Err("DEST_EXISTS", op.dest.path, "null", The(drows).blobId, k)
        ELSE NoErr
    ELSE IF drows = {} THEN
        Err("DEST_NOT_FOUND", op.dest.path, op.dest.basis, "null", k)
    ELSE IF The(drows).blobId # op.dest.basis THEN
        Err("DEST_CHANGED", op.dest.path, op.dest.basis, The(drows).blobId, k)
    ELSE NoErr

\* Phase 1: the first operation, in journal order, whose predicate fails.
RECURSIVE validateFrom(_, _, _)
validateFrom(fs, ops, k) ==
    IF k > Len(ops) THEN NoErr
    ELSE LET e == checkOp(fs, ops[k], k) IN
         IF e # NoErr THEN e ELSE validateFrom(fs, ops, k + 1)

\* Phase 2, op "delete".
applyDelete(t, op, time) ==
    LET rows == filesByPath(t.files, op.source.path) IN
    IF NotUnique(rows) THEN Throw(t, NotUniqueErr(op.source.path))
    ELSE IF rows = {} THEN t
    ELSE LET file == The(rows) IN
         patchRefCount([t EXCEPT !.files = @ \ {file}], file.blobId, -1, time)

\* A move whose final patch is skipped when the source row is already gone
\* (used to probe C39).
applyMoveSkipDeleted(t, op, time) ==
    LET srows == filesByPath(t.files, op.source.path)
        drows == filesByPath(t.files, op.dest.path)
    IN
    IF NotUnique(srows) THEN Throw(t, NotUniqueErr(op.source.path))
    ELSE IF srows = {} THEN t
    ELSE LET sourceFile == The(srows)
             t1 == IF op.dest.basis = NullBasis THEN t
                   ELSE IF NotUnique(drows) THEN Throw(t, NotUniqueErr(op.dest.path))
                   ELSE IF drows = {} THEN t
                   ELSE LET destFile == The(drows) IN
                        patchRefCount([t EXCEPT !.files = @ \ {destFile}],
                                      destFile.blobId, -1, time)
         IN
         IF t1.err # NoErr THEN t1
         ELSE IF sourceFile.id \notin Ids(t1.files) THEN t1
         ELSE [t1 EXCEPT !.files = (@ \ {sourceFile}) \cup
                   {[sourceFile EXCEPT !.path = op.dest.path]}]

\* Phase 2, op "move": drop an overwritten dest row, then re-path the source
\* row.  Patching a document deleted earlier in the transaction throws.
applyMove(t, op, time) ==
    LET srows == filesByPath(t.files, op.source.path)
        drows == filesByPath(t.files, op.dest.path)
    IN
    IF NotUnique(srows) THEN Throw(t, NotUniqueErr(op.source.path))
    ELSE IF srows = {} THEN t
    ELSE LET sourceFile == The(srows)
             t1 == IF op.dest.basis = NullBasis THEN t
                   ELSE IF NotUnique(drows) THEN Throw(t, NotUniqueErr(op.dest.path))
                   ELSE IF drows = {} THEN t
                   ELSE LET destFile == The(drows) IN
                        patchRefCount([t EXCEPT !.files = @ \ {destFile}],
                                      destFile.blobId, -1, time)
         IN
         IF t1.err # NoErr THEN t1
         ELSE IF sourceFile.id \notin Ids(t1.files)
         THEN Throw(t1, Err("NONEXISTENT_DOCUMENT", op.source.path, "", "", 0))
         ELSE [t1 EXCEPT !.files = (@ \ {sourceFile}) \cup
                   {[sourceFile EXCEPT !.path = op.dest.path]}]

\* A copy that writes back the refCount the blob row was committed with
\* instead of incrementing the one it reads (used to probe C9).
applyCopyStaleCount(t, op, time) ==
    LET srows == filesByPath(t.files, op.source.path)
        drows == filesByPath(t.files, op.dest.path)
    IN
    IF srows = {} \/ drows # {} THEN t
    ELSE LET sourceFile == The(srows)
             brows == blobsByBlobId(t.blobs, sourceFile.blobId)
         IN insertFile([t EXCEPT !.blobs = (@ \ brows) \cup
                            {[b EXCEPT !.refCount = 2, !.updatedAt = time] : b \in brows}],
                       op.dest.path, sourceFile.blobId)

\* Phase 2, op "copy": count the new reference, then repoint an existing dest
\* row (releasing its old blob) or insert a new row.
applyCopy(t, op, time) ==
    LET srows == filesByPath(t.files, op.source.path)
        drows == filesByPath(t.files, op.dest.path)
    IN
    IF NotUnique(srows) THEN Throw(t, NotUniqueErr(op.source.path))
    ELSE IF srows = {} THEN t
    ELSE LET sourceFile == The(srows)
             t1 == patchRefCount(t, sourceFile.blobId, 1, time)
         IN
         IF t1.err # NoErr THEN t1
         ELSE IF NotUnique(drows) THEN Throw(t1, NotUniqueErr(op.dest.path))
         ELSE IF drows # {} THEN
              LET destFile == The(drows) IN
              patchRefCount(
                  [t1 EXCEPT !.files = (@ \ {destFile}) \cup
                       {[destFile EXCEPT !.blobId = sourceFile.blobId]}],
                  destFile.blobId, -1, time)
         ELSE insertFile(t1, op.dest.path, sourceFile.blobId)

applyOp(t, op, time) ==
    IF op.op = "delete" THEN applyDelete(t, op, time)
    ELSE IF op.op = "move" THEN applyMove(t, op, time)
    ELSE IF op.op = "copy" THEN applyCopy(t, op, time)
    ELSE t

\* Phase 2: every operation in journal order, each on the tables left by the
\* ones before it; a throw ends the loop.
RECURSIVE applyFrom(_, _, _, _)
applyFrom(t, ops, k, time) ==
    IF k > Len(ops) \/ t.err # NoErr \/ t.full THEN t
    ELSE LET t1 == applyOp(t, ops[k], time) IN
         applyFrom(IF t1.err # NoErr THEN [t1 EXCEPT !.err.at = k] ELSE t1,
                   ops, k + 1, time)

\* A mutation is one transaction: when the handler throws, none of its writes
\* are kept and the caller gets the error.
abortOnThrow(t0, t) == IF t.err # NoErr THEN Throw(t0, t.err) ELSE t

ArgumentValidationErr == Err("ARGUMENT_VALIDATION", "", "", "", 0)

\* A transact that checks and applies one operation at a time and keeps what
\* it applied when a later check fails (used to probe C2).
RECURSIVE eagerFrom(_, _, _, _)
eagerFrom(t, ops, k, time) ==
    IF k > Len(ops) \/ t.err # NoErr \/ t.full THEN t
    ELSE LET e == checkOp(t.files, ops[k], k) IN
         IF e # NoErr THEN Throw(t, e)
         ELSE eagerFrom(applyOp(t, ops[k], time), ops, k + 1, time)

transactEager(t, ops, time) == eagerFrom(t, ops, 1, time)

\* The transact mutation: validate every operation, then apply every operation.
transact(t, ops, time) ==
    IF \E k \in 1..Len(ops) : ~opValidator(ops[k]) THEN Throw(t, ArgumentValidationErr)
    ELSE LET e == validateFrom(t.files, ops, 1) IN
         IF e # NoErr THEN Throw(t, e)
         ELSE abortOnThrow(t, applyFrom(t, ops, 1, time))

\* ------------------------------------------------------------------------
\* commitFiles
\* ------------------------------------------------------------------------
\* Variant: any upload row counts, with or without contentType and size.
uploadAnyRow(us, blobId) == uploadsByBlobId(us, blobId)

\* The upload row that carries contentType and size for entry k, if any.
uploadWithMeta(us, blobId) == {u \in uploadsByBlobId(us, blobId) : u.meta # NoMeta}

\* "Verify CAS conditions": entries with a basis, against the current file.
RECURSIVE casFrom(_, _, _)
casFrom(fs, entries, k) ==
    IF k > Len(entries) THEN NoErr
    ELSE LET rows == filesByPath(fs, entries[k].path)
             currentBlobId == IF rows = {} THEN "null" ELSE The(rows).blobId
         IN
         IF entries[k].basis = NoBasis THEN casFrom(fs, entries, k + 1)
         ELSE IF NotUnique(rows) THEN [NotUniqueErr(entries[k].path) EXCEPT !.at = k]
         ELSE IF currentBlobId # entries[k].basis
         THEN Err("CAS_CONFLICT", entries[k].path, entries[k].basis, currentBlobId, k)
         ELSE casFrom(fs, entries, k + 1)

\* One iteration of the commit loop: insert the blob row with refCount 1,
\* repoint or insert the file row, delete the upload row.
commitEntry(t, entry, meta, time) ==
    LET usedBlobRows == Ids(t.blobs) \cup t.held
        frows == filesByPath(t.files, entry.path)
    IN
    IF ~HasFreshId(BlobRowIdPool, usedBlobRows) THEN [t EXCEPT !.full = TRUE]
    ELSE
    LET t1 == [t EXCEPT !.blobs = @ \cup
                  {[id |-> FreshId(BlobRowIdPool, usedBlobRows), blobId |-> entry.blobId,
                    meta |-> meta, refCount |-> 1, updatedAt |-> time]}]
        t2 == IF NotUnique(frows) THEN Throw(t1, NotUniqueErr(entry.path))
              ELSE IF frows # {} THEN
                   LET existingFile == The(frows) IN
                   patchRefCount(
                       [t1 EXCEPT !.files = (@ \ {existingFile}) \cup
                            {[existingFile EXCEPT !.blobId = entry.blobId]}],
                       existingFile.blobId, -1, time)
              ELSE insertFile(t1, entry.path, entry.blobId)
        urows == uploadsByBlobId(t2.uploads, entry.blobId)
    IN
    IF t2.err # NoErr \/ t2.full THEN t2
    ELSE IF NotUnique(urows) THEN Throw(t2, NotUniqueErr(entry.blobId))
    ELSE [t2 EXCEPT !.uploads = @ \ urows]

RECURSIVE commitFrom(_, _, _, _, _)
commitFrom(t, entries, metadataMap, k, time) ==
    IF k > Len(entries) \/ t.err # NoErr \/ t.full THEN t
    ELSE LET t1 == commitEntry(t, entries[k], metadataMap[entries[k].blobId], time) IN
         commitFrom(IF t1.err # NoErr THEN [t1 EXCEPT !.err.at = k] ELSE t1,
                    entries, metadataMap, k + 1, time)

\* Variant: each entry is checked against the tables as the entries before it
\* left them, and applied at once.
RECURSIVE sequentialFrom(_, _, _, _)
sequentialFrom(t, entries, k, time) ==
    IF k > Len(entries) \/ t.err # NoErr \/ t.full THEN t
    ELSE LET us == uploadWithMeta(t.uploads, entries[k].blobId)
             e == casFrom(t.files, <<entries[k]>>, 1)
         IN
         IF us = {}
         THEN Throw(t, Err("UPLOAD_NOT_FOUND", "", entries[k].blobId, "null", k))
         ELSE IF e # NoErr THEN Throw(t, [e EXCEPT !.at = k])
         ELSE sequentialFrom(commitEntry(t, entries[k], The(us).meta, time),
                             entries, k + 1, time)

commitFilesSequential(t, entries, time) ==
    abortOnThrow(t, sequentialFrom(t, entries, 1, time))

\* The commitFiles mutation.
commitFiles(t, entries, time) ==
    LET idx == 1..Len(entries)
        dup == {k \in idx : NotUnique(uploadsByBlobId(t.uploads, entries[k].blobId))}
        missing == {k \in idx : uploadWithMeta(t.uploads, entries[k].blobId) = {}}
        First(S) == CHOOSE k \in S : \A j \in S : k <= j
        metadataMap == [b \in BlobIds |->
                           IF uploadWithMeta(t.uploads, b) = {} THEN NoMeta
                           ELSE The(uploadWithMeta(t.uploads, b)).meta]
    IN
    IF Len(entries) = 0 THEN t
    ELSE IF dup # {} THEN Throw(t, [NotUniqueErr(entries[First(dup)].blobId) EXCEPT !.at = First(dup)])
    ELSE IF missing # {}
    THEN Throw(t, Err("UPLOAD_NOT_FOUND", "", entries[First(missing)].blobId, "null", First(missing)))
    ELSE LET e == casFrom(t.files, entries, 1) IN
         IF e # NoErr THEN Throw(t, e)
         ELSE abortOnThrow(t, commitFrom(t, entries, metadataMap, 1, time))

\* ------------------------------------------------------------------------
\* restore
\* ------------------------------------------------------------------------
\* The restore mutation: re-link an existing blob to a path.
restore(t, blobId, path, time) ==
    LET rows == blobsByBlobId(t.blobs, blobId) IN
    IF NotUnique(rows) THEN Throw(t, NotUniqueErr(blobId))
    ELSE IF rows = {} THEN Throw(t, Err("BLOB_NOT_FOUND", path, blobId, "null", 0))
    ELSE abortOnThrow(t, insertFile(patchRefCount(t, blobId, 1, time), path, blobId))

\* ------------------------------------------------------------------------
\* stat
\* ------------------------------------------------------------------------
NoFile == [path |-> "", blobId |-> "null", meta |-> NoMeta]

\* The stat query: null when the path holds no file, else the file joined
\* with its blob's metadata; it throws when the blob row is missing.
stat(fs, bs, path) ==
    LET frows == filesByPath(fs, path)
        brows == blobsByBlobId(bs, The(frows).blobId)
    IN
    IF NotUnique(frows) THEN [err |-> NotUniqueErr(path), file |-> NoFile]
    ELSE IF frows = {} THEN [err |-> NoErr, file |-> NoFile]
    ELSE IF NotUnique(brows) THEN [err |-> NotUniqueErr(The(frows).blobId), file |-> NoFile]
    ELSE IF brows = {}
    THEN [err |-> Err("INVARIANT_VIOLATION", path, The(frows).blobId, "null", 0),
          file |-> NoFile]
    ELSE [err |-> NoErr,
          file |-> [path |-> path, blobId |-> The(frows).blobId, meta |-> The(brows).meta]]

\* ------------------------------------------------------------------------
\* Stored config
\* ------------------------------------------------------------------------
NoConfig == [stored |-> FALSE, blobGracePeriod |-> Undefined, freezeGc |-> FALSE,
             checksum |-> <<>>]

\* Grace periods a client config may carry, in clock units.
GracePeriods == {Undefined, 1}

\* Default grace period before orphaned blobs are deleted, in clock units
\* (24 hours in the source).
DEFAULT_BLOB_GRACE_PERIOD_S == 2
\* Max items to process per GC run (100 in the source).
GC_BATCH_SIZE == 2
\* Lifetime of a pending upload, in clock units.
UPLOAD_TTL == 2

\* checksum(newValue): a digest of the client-provided fields.
checksum(blobGracePeriod) == <<"sha256", blobGracePeriod>>

\* The ensureConfigStored mutation.
ensureConfigStored(cfg, blobGracePeriod) ==
    IF ~cfg.stored
    THEN [stored |-> TRUE, blobGracePeriod |-> blobGracePeriod, freezeGc |-> FALSE,
          checksum |-> checksum(blobGracePeriod)]
    ELSE IF cfg.checksum # checksum(blobGracePeriod)
    THEN [stored |-> TRUE, blobGracePeriod |-> blobGracePeriod, freezeGc |-> FALSE,
          checksum |-> checksum(blobGracePeriod)]
    ELSE cfg

\* ------------------------------------------------------------------------
\* Blob GC
\* ------------------------------------------------------------------------
BgcIdle == [pc |-> "idle", orphaned |-> {}, okToDelete |-> {}, errorCount |-> 0,
            scheduled |-> FALSE]

\* Blob rows a running sweep holds by _id.
heldBlobRows == {c.id : c \in bgc.orphaned}

\* ------------------------------------------------------------------------
\* Upload GC
\* ------------------------------------------------------------------------
UgcIdle == [pc |-> "idle", threshold |-> 0, expired |-> {}, results |-> {},
            scheduled |-> FALSE]

\* Upload rows a running sweep holds by _id.
heldUploadRows == {c.id : c \in ugc.expired}

\* ------------------------------------------------------------------------
\* File GC
\* ------------------------------------------------------------------------
FgcIdle == [pc |-> "idle", expired |-> {}, scheduled |-> FALSE]

\* File rows a running sweep holds by _id.
heldFileRows == {c.id : c \in fgc.expired}

gracePeriodS(cfg) ==
    IF cfg.blobGracePeriod = Undefined THEN DEFAULT_BLOB_GRACE_PERIOD_S
    ELSE cfg.blobGracePeriod

\* Variant: every row with refCount = 0, however recently it was orphaned.
orphanedRowsAnyAge(bs, threshold) == {b \in bs : b.refCount = 0}

\* Rows of the index refCountUpdatedAt with refCount = 0 and updatedAt < threshold.
orphanedRows(bs, threshold) == {b \in bs : b.refCount = 0 /\ b.updatedAt < threshold}

\* The batches take(limit) can return: the first rows in updatedAt order,
\* rows of equal updatedAt in either order.
findOrphanedBlobs(bs, threshold, limit) ==
    LET cands == orphanedRows(bs, threshold)
        n == IF Cardinality(cands) < limit THEN Cardinality(cands) ELSE limit
    IN {S \in SUBSET cands :
            /\ Cardinality(S) = n
            /\ \A x \in S : \A y \in cands \ S : x.updatedAt <= y.updatedAt}

\* store.delete(key): "deleted" when the object was there, "not_found" when not.
storeDelete(st, key) == IF key \in st THEN "deleted" ELSE "not_found"

\* Variant: the query returns at most one row.
findExpiredUploadsOne(us, threshold, limit) ==
    {S \in SUBSET {u \in us : u.expiresAt < threshold} :
        /\ Cardinality(S) = (IF {u \in us : u.expiresAt < threshold} = {} THEN 0 ELSE 1)
        /\ \A x \in S : \A y \in us : y.expiresAt < threshold => x.expiresAt <= y.expiresAt}

\* Rows of the index expiresAt with expiresAt < threshold.
expiredRows(us, threshold) == {u \in us : u.expiresAt < threshold}

\* The batches take(limit) can return: the first rows in expiresAt order,
\* rows of equal expiresAt in either order.
findExpiredUploads(us, threshold, limit) ==
    LET cands == expiredRows(us, threshold)
        n == IF Cardinality(cands) < limit THEN Cardinality(cands) ELSE limit
    IN {S \in SUBSET cands :
            /\ Cardinality(S) = n
            /\ \A x \in S : \A y \in cands \ S : x.expiresAt <= y.expiresAt}

\* Variant: the candidate query runs whatever freezeGc says.
gcExpiredUploadsFindUnfrozen(cfg, us, time) ==
    IF ~cfg.stored THEN {UgcIdle}
    ELSE {IF batch = {} THEN UgcIdle
          ELSE [UgcIdle EXCEPT !.pc = "found", !.threshold = time,
                    !.expired = {[id |-> u.id, blobId |-> u.blobId] : u \in batch}] :
          batch \in findExpiredUploads(us, time, GC_BATCH_SIZE)}

\* gcExpiredUploads up to its candidate query: the sweep returns at once
\* without a stored config, with freezeGc set, or with no candidate.
gcExpiredUploadsFind(cfg, us, time) ==
    IF ~cfg.stored THEN {UgcIdle}
    ELSE IF cfg.freezeGc THEN {UgcIdle}
    ELSE {IF batch = {} THEN UgcIdle
          ELSE [UgcIdle EXCEPT !.pc = "found", !.threshold = time,
                    !.expired = {[id |-> u.id, blobId |-> u.blobId] : u \in batch}] :
          batch \in findExpiredUploads(us, time, GC_BATCH_SIZE)}

\* The storage deletes of a batch; the deletes in failed throw.
deleteFromStorage(st, cands, failed) ==
    {[id |-> c.id, blobId |-> c.blobId,
      status |-> IF c \in failed THEN "error" ELSE storeDelete(st, c.blobId)] : c \in cands}

\* okToDelete: the ids whose storage delete returned.
okToDelete(results) == {r.id : r \in {x \in results : x.status # "error"}}
errorCount(results) == Cardinality({r \in results : r.status = "error"})

\* Variant: the mutation deletes nothing.
deleteUploadRecordsNone(us, ids) == us

\* deleteUploadRecords: ctx.db.delete of every id; deleting a document that
\* no longer exists throws and aborts the mutation.
deleteUploadRecordsThrows(us, ids) == ~(ids \subseteq Ids(us))
deleteUploadRecords(us, ids) ==
    IF deleteUploadRecordsThrows(us, ids) THEN us ELSE {u \in us : u.id \notin ids}

\* Rows of the index expiresAt of files with 0 < attributes.expiresAt < threshold;
\* rows without expiresAt sort before every number and are left out.
expiredFileRows(fs, threshold) == {f \in fs : f.expiresAt > 0 /\ f.expiresAt < threshold}

findExpiredFiles(fs, threshold, limit) ==
    LET cands == expiredFileRows(fs, threshold)
        n == IF Cardinality(cands) < limit THEN Cardinality(cands) ELSE limit
    IN {S \in SUBSET cands :
            /\ Cardinality(S) = n
            /\ \A x \in S : \A y \in cands \ S : x.expiresAt <= y.expiresAt}

\* gcExpiredFiles up to its candidate query: the config is not read.
gcExpiredFilesFind(fs, time) ==
    {IF batch = {} THEN FgcIdle
     ELSE [FgcIdle EXCEPT !.pc = "found",
               !.expired = {[id |-> f.id, blobId |-> f.blobId] : f \in batch}] :
     batch \in findExpiredFiles(fs, time, GC_BATCH_SIZE)}

\* deleteFileAndDecrefBlob(ctx, fileId, blobId, now): delete the file row and
\* decrement the refCount of the blob it referenced.
deleteFileAndDecrefBlob(t, fileId, blobId, time) ==
    IF fileId \notin Ids(t.files) THEN Throw(t, Err("NONEXISTENT_DOCUMENT", "", "", "", 0))
    ELSE patchRefCount([t EXCEPT !.files = {f \in @ : f.id # fileId}], blobId, -1, time)

\* deleteExpiredFileRecords: one mutation over the batch, in array order.
RECURSIVE deleteExpiredFileRecordsFrom(_, _, _)
deleteExpiredFileRecordsFrom(t, cands, time) ==
    IF cands = {} \/ t.err # NoErr THEN t
    ELSE LET file == CHOOSE c \in cands : \A d \in cands : c.id <= d.id IN
         deleteExpiredFileRecordsFrom(
             deleteFileAndDecrefBlob(t, file.id, file.blobId, time), cands \ {file}, time)

deleteExpiredFileRecords(t, cands, time) ==
    abortOnThrow(t, deleteExpiredFileRecordsFrom(t, cands, time))

\* setAttributes(source, {expiresAt}): the file row at the path gets the
\* deadline; no blobId, path or refCount changes.
setAttributes(fs, path, expiresAt) ==
    {IF f.path = path THEN [f EXCEPT !.expiresAt = expiresAt] ELSE f : f \in fs}

\* gcOrphanedBlobs up to its candidate query.
gcOrphanedBlobsFind(cfg, bs, time) ==
    IF ~cfg.stored THEN {BgcIdle}
    ELSE IF cfg.freezeGc THEN {BgcIdle}
    ELSE {IF batch = {} THEN BgcIdle
          ELSE [BgcIdle EXCEPT !.pc = "found",
                    !.orphaned = {[id |-> b.id, blobId |-> b.blobId] : b \in batch}] :
          batch \in findOrphanedBlobs(bs, time - gracePeriodS(cfg), GC_BATCH_SIZE)}

\* The storage deletes of an Upload GC batch g: the store afterwards and the
\* sweep with its results.
ugcStorageStep(g, st, failed) ==
    [store |-> st \ {c.blobId : c \in g.expired \ failed},
     ugc |-> [g EXCEPT !.pc = "stored",
                  !.results = deleteFromStorage(st, g.expired, failed)]]

\* The end of an Upload GC sweep g: deleteUploadRecords for the rows whose
\* storage delete returned, then the follow-up after a full, error-free
\* batch; when the mutation throws the action ends there.
ugcRecordsStep(g, us) ==
    LET threw == deleteUploadRecordsThrows(us, okToDelete(g.results)) IN
    [uploads |-> deleteUploadRecords(us, okToDelete(g.results)),
     threw |-> threw,
     ugc |-> [UgcIdle EXCEPT !.scheduled =
                  /\ ~threw
                  /\ Cardinality(g.expired) = GC_BATCH_SIZE
                  /\ errorCount(g.results) = 0]]

\* The storage deletes of a Blob GC batch g.
bgcStorageStep(g, st, failed) ==
    [store |-> st \ {c.blobId : c \in g.orphaned \ failed},
     bgc |-> [g EXCEPT !.pc = "stored",
                  !.okToDelete = Ids(g.orphaned \ failed),
                  !.errorCount = Cardinality(failed)]]

\* The end of a Blob GC sweep g: deleteBlobRecords removes the rows whose
\* storage delete did not throw (deleting a missing document aborts that
\* mutation), then the follow-up after a full, error-free batch.
bgcRecordsStep(g, bs) ==
    LET threw == ~(g.okToDelete \subseteq Ids(bs)) IN
    [blobs |-> IF threw THEN bs ELSE {b \in bs : b.id \notin g.okToDelete},
     threw |-> threw,
     bgc |-> [BgcIdle EXCEPT !.scheduled =
                  /\ ~threw
                  /\ Cardinality(g.orphaned) = GC_BATCH_SIZE
                  /\ g.errorCount = 0]]

\* One whole run of gcExpiredUploads with nothing running in between and no
\* storage delete throwing: the outcomes, one per batch the query can return.
gcExpiredUploads(cfg, us, st, time) ==
    {IF g.pc = "idle"
     THEN [uploads |-> us, store |-> st, threw |-> FALSE, scheduled |-> FALSE]
     ELSE LET s == ugcStorageStep(g, st, {})
              r == ugcRecordsStep(s.ugc, us)
          IN [uploads |-> r.uploads, store |-> s.store, threw |-> r.threw,
              scheduled |-> r.ugc.scheduled] :
     g \in gcExpiredUploadsFind(cfg, us, time)}

\* One whole run of gcOrphanedBlobs, likewise.
gcOrphanedBlobs(cfg, bs, st, time) ==
    {IF g.pc = "idle"
     THEN [blobs |-> bs, store |-> st, threw |-> FALSE, scheduled |-> FALSE]
     ELSE LET s == bgcStorageStep(g, st, {})
              r == bgcRecordsStep(s.bgc, bs)
          IN [blobs |-> r.blobs, store |-> s.store, threw |-> r.threw,
              scheduled |-> r.bgc.scheduled] :
     g \in gcOrphanedBlobsFind(cfg, bs, time)}

\* ------------------------------------------------------------------------
\* Inputs
\* ------------------------------------------------------------------------
SourcesOver(P) == [path : P, blobId : BlobIds]
DestsOver(P, B) == [path : P, basis : B]

DeleteOp(s) == [op |-> "delete", source |-> s, dest |-> [path |-> s.path, basis |-> NoBasis]]
MoveOp(s, d) == [op |-> "move", source |-> s, dest |-> d]
CopyOp(s, d) == [op |-> "copy", source |-> s, dest |-> d]
SetAttributesOp(s) ==
    [op |-> "setAttributes", source |-> s, dest |-> [path |-> s.path, basis |-> NoBasis]]

DeleteOps(P) == {DeleteOp(s) : s \in SourcesOver(P)}
MoveOps(P, B) == {MoveOp(s, d) : s \in SourcesOver(P), d \in DestsOver(P, B)}
CopyOps(P, B) == {CopyOp(s, d) : s \in SourcesOver(P), d \in DestsOver(P, B)}
SetAttributesOps(P) == {SetAttributesOp(s) : s \in SourcesOver(P)}
OpsOver(P) ==
    DeleteOps(P) \cup MoveOps(P, BasisValues) \cup CopyOps(P, BasisValues)
        \cup SetAttributesOps(P)

SeqsUpTo(S, n) == UNION {[1..k -> S] : k \in 1..n}

EntriesWith(P, B) == [path : P, blobId : BlobIds, basis : B]
EntriesOver(P) == EntriesWith(P, BasisValues)

\* ------------------------------------------------------------------------
\* State
\* ------------------------------------------------------------------------
NoResp == [call |-> "none", err |-> NoErr]
\* A client that holds no operation to submit.
NoView == [op |-> "none"]

Init ==
    /\ files = {}
    /\ blobs = {}
    /\ uploads = {}
    /\ store = {}
    /\ config = NoConfig
    /\ now = 0
    /\ bgc = BgcIdle
    /\ ugc = UgcIdle
    /\ fgc = FgcIdle
    /\ resp = [c \in Clients |-> NoResp]
    /\ view = [c \in Clients |-> NoView]

CurrentTx == [Tx(files, blobs, uploads, heldBlobRows) EXCEPT !.heldFiles = heldFileRows]

\* A blobId no row, object or sweep knows: crypto.randomUUID().
FreshBlobIds ==
    BlobIds \ ({u.blobId : u \in uploads} \cup {b.blobId : b \in blobs}
               \cup {f.blobId : f \in files} \cup store
               \cup {c.blobId : c \in bgc.orphaned}
               \cup {c.blobId : c \in ugc.expired})

Respond(c, call, err) == resp' = [resp EXCEPT ![c] = [call |-> call, err |-> err]]

\* ------------------------------------------------------------------------
\* Actions
\* ------------------------------------------------------------------------
\* prepareUpload: record a pending upload (no contentType, no size yet).
PrepareUpload ==
    /\ HasFreshId(UploadIdPool, Ids(uploads) \cup heldUploadRows)
    /\ \E b \in FreshBlobIds :
           uploads' = uploads \cup
               {[id |-> FreshId(UploadIdPool, Ids(uploads) \cup heldUploadRows), blobId |-> b,
                 expiresAt |-> now + UPLOAD_TTL, meta |-> NoMeta]}
    /\ UNCHANGED <<files, blobs, store, config, now, bgc, resp, view, ugc, fgc>>

\* registerPendingUpload(blobId, contentType, size): creates the upload row,
\* with its metadata and a time to live.
registerPendingUpload(us, blobId, meta, time) ==
    us \cup {[id |-> FreshId(UploadIdPool, Ids(us) \cup heldUploadRows), blobId |-> blobId,
              expiresAt |-> time + UPLOAD_TTL, meta |-> meta]}

\* writeBlob: put the bytes in the blob store under a new blobId, then
\* register the pending upload with its contentType and size.
WriteBlobOf(M) ==
    /\ HasFreshId(UploadIdPool, Ids(uploads) \cup heldUploadRows)
    /\ \E b \in FreshBlobIds, m \in M :
           /\ store' = store \cup {b}
           /\ uploads' = registerPendingUpload(uploads, b, m, now)
    /\ UNCHANGED <<files, blobs, config, now, bgc, resp, view, ugc, fgc>>

WriteBlob == WriteBlobOf(Metas)

CommitFiles(c, entries) ==
    /\ resp[c] = NoResp
    /\ LET t == commitFiles(CurrentTx, entries, now) IN
       /\ ~t.full
       /\ files' = t.files
       /\ blobs' = t.blobs
       /\ uploads' = t.uploads
       /\ Respond(c, "commitFiles", t.err)
    /\ UNCHANGED <<store, config, now, bgc, view, ugc, fgc>>

Transact(c, ops) ==
    /\ resp[c] = NoResp
    /\ LET t == transact(CurrentTx, ops, now) IN
       /\ ~t.full
       /\ files' = t.files
       /\ blobs' = t.blobs
       /\ uploads' = t.uploads
       /\ Respond(c, "transact", t.err)
    /\ UNCHANGED <<store, config, now, bgc, view, ugc, fgc>>

Restore(c, blobId, path) ==
    /\ resp[c] = NoResp
    /\ LET t == restore(CurrentTx, blobId, path, now) IN
       /\ ~t.full
       /\ files' = t.files
       /\ blobs' = t.blobs
       /\ uploads' = t.uploads
       /\ Respond(c, "restore", t.err)
    /\ UNCHANGED <<store, config, now, bgc, view, ugc, fgc>>

\* A caller stats the source (and, for move and copy, the dest) and builds
\* the operation it will submit: the source as stat returned it, and
\* basis null for a dest that stat found vacant.  The two reads are taken as
\* one step; a view whose parts were read at different times is a view that
\* has gone stale, which any later step of another caller produces too.
Plan(c, kind, sourcePath, destPath) ==
    /\ resp[c] = NoResp
    /\ view[c] = NoView
    /\ LET s == stat(files, blobs, sourcePath)
           d == stat(files, blobs, destPath)
           source == [path |-> sourcePath, blobId |-> s.file.blobId]
       IN
       /\ s.err = NoErr
       /\ s.file # NoFile
       /\ IF kind = "delete"
          THEN view' = [view EXCEPT ![c] = DeleteOp(source)]
          ELSE /\ d.err = NoErr
               /\ d.file = NoFile
               /\ view' = [view EXCEPT ![c] =
                      [op |-> kind, source |-> source,
                       dest |-> [path |-> destPath, basis |-> NullBasis]]]
    /\ UNCHANGED <<files, blobs, uploads, store, config, now, bgc, resp, ugc, fgc>>

\* The caller submits the operation it built, as a journal of one.
Submit(c) ==
    /\ view[c] # NoView
    /\ Transact(c, <<view[c]>>)

\* The caller reads the outcome of its call and drops its view.
Return(c) ==
    /\ resp[c] # NoResp
    /\ resp' = [resp EXCEPT ![c] = NoResp]
    /\ view' = [view EXCEPT ![c] = NoView]
    /\ UNCHANGED <<files, blobs, uploads, store, config, now, bgc, ugc, fgc>>

Tick ==
    /\ now < MaxTime
    /\ now' = now + 1
    /\ UNCHANGED <<files, blobs, uploads, store, config, bgc, resp, view, ugc, fgc>>

EnsureConfigStored ==
    /\ \E g \in GracePeriods : config' = ensureConfigStored(config, g)
    /\ UNCHANGED <<files, blobs, uploads, store, now, bgc, resp, view, ugc, fgc>>

\* gcOrphanedBlobs, up to its candidate query: the sweep returns at once
\* without a stored config, with freezeGc set, or with no candidate.
BgcFind ==
    /\ bgc.pc = "idle"
    /\ bgc' \in gcOrphanedBlobsFind(config, blobs, now)
    /\ UNCHANGED <<files, blobs, uploads, store, config, now, resp, view, ugc, fgc>>

\* gcOrphanedBlobs, the storage deletes: each candidate is deleted, was already
\* gone, or its delete throws and is counted as an error.
BgcDeleteFromStorageOf(F) ==
    /\ bgc.pc = "found"
    /\ \E failed \in F :
           /\ store' = bgcStorageStep(bgc, store, failed).store
           /\ bgc' = bgcStorageStep(bgc, store, failed).bgc
    /\ UNCHANGED <<files, blobs, uploads, config, now, resp, view, ugc, fgc>>

BgcDeleteFromStorage == BgcDeleteFromStorageOf(SUBSET bgc.orphaned)

\* gcOrphanedBlobs, the end.
BgcDeleteRecords ==
    /\ bgc.pc = "stored"
    /\ blobs' = bgcRecordsStep(bgc, blobs).blobs
    /\ bgc' = bgcRecordsStep(bgc, blobs).bgc
    /\ UNCHANGED <<files, uploads, store, config, now, resp, view, ugc, fgc>>

\* The dashboard edit of the stored config row: freezeGc on or off.
SetFreezeGc ==
    /\ config.stored
    /\ \E f \in BOOLEAN : config' = [config EXCEPT !.freezeGc = f]
    /\ UNCHANGED <<files, blobs, uploads, store, now, bgc, ugc, fgc, resp, view>>

\* gcExpiredUploads, up to its candidate query.
UgcFind ==
    /\ ugc.pc = "idle"
    /\ ugc' \in gcExpiredUploadsFind(config, uploads, now)
    /\ UNCHANGED <<files, blobs, uploads, store, config, now, bgc, fgc, resp, view>>

\* gcExpiredUploads, the storage deletes: each candidate is deleted, was never
\* there, or its delete throws and is recorded as an error.
UgcDeleteFromStorageOf(F) ==
    /\ ugc.pc = "found"
    /\ \E failed \in F :
           /\ store' = ugcStorageStep(ugc, store, failed).store
           /\ ugc' = ugcStorageStep(ugc, store, failed).ugc
    /\ UNCHANGED <<files, blobs, uploads, config, now, bgc, fgc, resp, view>>

UgcDeleteFromStorage == UgcDeleteFromStorageOf(SUBSET ugc.expired)

\* gcExpiredUploads, the end.
UgcDeleteRecords ==
    /\ ugc.pc = "stored"
    /\ uploads' = ugcRecordsStep(ugc, uploads).uploads
    /\ ugc' = ugcRecordsStep(ugc, uploads).ugc
    /\ UNCHANGED <<files, blobs, store, config, now, bgc, fgc, resp, view>>

\* A caller gives the file at a path a deadline.
SetAttributes(path, expiresAt) ==
    /\ Cardinality(filesByPath(files, path)) = 1
    /\ files' = setAttributes(files, path, expiresAt)
    /\ UNCHANGED <<blobs, uploads, store, config, now, bgc, ugc, fgc, resp, view>>

\* gcExpiredFiles, up to its candidate query.
FgcFind ==
    /\ fgc.pc = "idle"
    /\ fgc' \in gcExpiredFilesFind(files, now)
    /\ UNCHANGED <<files, blobs, uploads, store, config, now, bgc, ugc, resp, view>>

\* gcExpiredFiles, the end: deleteExpiredFileRecords, then a follow-up after
\* a full batch; when the mutation throws the action ends there.
FgcDeleteRecords ==
    /\ fgc.pc = "found"
    /\ LET t == deleteExpiredFileRecords(CurrentTx, fgc.expired, now) IN
       /\ files' = t.files
       /\ blobs' = t.blobs
       /\ fgc' = [FgcIdle EXCEPT !.scheduled =
                      t.err = NoErr /\ Cardinality(fgc.expired) = GC_BATCH_SIZE]
    /\ UNCHANGED <<uploads, store, config, now, bgc, ugc, resp, view>>

\* ------------------------------------------------------------------------
\* Specifications
\* ------------------------------------------------------------------------
\* The metadata mutations: uploads, commits and journals of one caller.
Next ==
    \/ PrepareUpload
    \/ WriteBlob
    \/ \E entries \in SeqsUpTo(EntriesOver(Paths2), MaxEntries) : CommitFiles("c1", entries)
    \/ \E ops \in SeqsUpTo(OpsOver(Paths2), MaxOps) : Transact("c1", ops)
    \/ Return("c1")

Spec == Init /\ [][Next]_vars

\* Journals of moves over three paths, starting from two committed files.
InitJournal ==
    /\ files = {[id |-> 1, path |-> "/a.txt", blobId |-> "blobA", expiresAt |-> Undefined],
                [id |-> 2, path |-> "/b.txt", blobId |-> "blobB", expiresAt |-> Undefined]}
    /\ blobs = {[id |-> 1, blobId |-> "blobA", meta |-> "text/plain:100",
                 refCount |-> 1, updatedAt |-> 0],
                [id |-> 2, blobId |-> "blobB", meta |-> "text/plain:100",
                 refCount |-> 1, updatedAt |-> 0]}
    /\ uploads = {}
    /\ store = {"blobA", "blobB"}
    /\ config = NoConfig
    /\ now = 0
    /\ bgc = BgcIdle
    /\ ugc = UgcIdle
    /\ fgc = FgcIdle
    /\ resp = [c \in Clients |-> NoResp]
    /\ view = [c \in Clients |-> NoView]

NextJournal ==
    \/ \E ops \in SeqsUpTo(MoveOps(Paths, {NullBasis}), MaxMoves) : Transact("c1", ops)
    \/ Return("c1")

SpecJournal == InitJournal /\ [][NextJournal]_vars

\* Two callers that stat, build an operation and submit it, racing each other.
NextRace ==
    \/ (\A c \in Clients : view[c] = NoView) /\ WriteBlob
    \/ \E entries \in SeqsUpTo(EntriesWith(Paths2, {NoBasis}), MaxEntries) :
           /\ \A c \in Clients : view[c] = NoView
           /\ CommitFiles("c1", entries)
    \/ \E c \in Clients, kind \in OpKinds, sp \in Paths, dp \in Paths :
           /\ \A d \in Clients : resp[d] = NoResp
           /\ Plan(c, kind, sp, dp)
    \/ \E c \in Clients : Submit(c)
    \/ \E c \in Clients : Return(c)

SpecRace == Init /\ [][NextRace]_vars

\* Commits, deletes and restores of one caller, interleaved with the clock,
\* the stored config and the steps of the Blob GC sweep.
NextGc ==
    \/ WriteBlob
    \/ \E e \in EntriesWith(Paths2, {NoBasis}) : CommitFiles("c1", <<e>>)
    \/ \E op \in DeleteOps(Paths2) : Transact("c1", <<op>>)
    \/ \E b \in BlobIds, p \in Paths2 : Restore("c1", b, p)
    \/ Return("c1")
    \/ Tick
    \/ EnsureConfigStored
    \/ BgcFind
    \/ BgcDeleteFromStorage
    \/ BgcDeleteRecords

SpecGc == Init /\ [][NextGc]_vars

\* ------------------------------------------------------------------------
\* Properties
\* ------------------------------------------------------------------------
refs(fs, blobId) == Cardinality({f \in fs : f.blobId = blobId})

\* C1: refcount conservation.  In every state reached by commitFiles and
\* transact calls, every blob row's refCount equals the number of file rows
\* whose blobId is that blob's id.
C1_RefCountConservation ==
    \A b \in blobs : b.refCount = refs(files, b.blobId)

HasFile(path) ==
    /\ stat(files, blobs, path).err = NoErr
    /\ stat(files, blobs, path).file # NoFile
Vacant(path) ==
    /\ stat(files, blobs, path).err = NoErr
    /\ stat(files, blobs, path).file = NoFile
SourceAt(path) == [path |-> path, blobId |-> stat(files, blobs, path).file.blobId]
refCountOf(bs, blobId) == The(blobsByBlobId(bs, blobId)).refCount
blobIdsAt(fs, path) == {f.blobId : f \in filesByPath(fs, path)}
MoveInto(sp, dp) == MoveOp(SourceAt(sp), [path |-> dp, basis |-> NullBasis])

\* C3: journal ordering, vacated destination.  Wherever files exist at both
\* P and S, the journal [delete P, move S -> P with basis null] succeeds;
\* afterwards P holds S's former blobId, S is absent and the blob formerly at
\* P has one reference fewer.
C3_DeleteThenMoveInto ==
    \A P \in Paths2 : \A S \in Paths2 \ {P} :
        (HasFile(P) /\ HasFile(S)) =>
            LET t == transact(CurrentTx, <<DeleteOp(SourceAt(P)), MoveInto(S, P)>>, now) IN
            /\ t.err = NoErr
            /\ blobIdsAt(t.files, P) = {SourceAt(S).blobId}
            /\ blobIdsAt(t.files, S) = {}
            /\ refCountOf(t.blobs, SourceAt(P).blobId)
                   = refCountOf(blobs, SourceAt(P).blobId) - 1

\* C4: journal ordering, created source.  A file moved by an earlier
\* operation can be the source of a later one: [move A -> B, move B -> C]
\* ends with only C holding the blob, and the three-move swap through a
\* vacant temporary path exchanges the two files and leaves that path vacant.
C4_ChainedMoves ==
    \A A \in Paths : \A B \in Paths \ {A} :
        /\ \A C \in Paths \ {A, B} :
               (HasFile(A) /\ Vacant(B) /\ Vacant(C)) =>
                   LET viaB == MoveOp([path |-> B, blobId |-> SourceAt(A).blobId],
                                      [path |-> C, basis |-> NullBasis])
                       t == transact(CurrentTx, <<MoveInto(A, B), viaB>>, now)
                   IN
                   /\ t.err = NoErr
                   /\ blobIdsAt(t.files, A) = {}
                   /\ blobIdsAt(t.files, B) = {}
                   /\ blobIdsAt(t.files, C) = {SourceAt(A).blobId}
        /\ \A T \in Paths \ {A, B} :
               (HasFile(A) /\ HasFile(B) /\ Vacant(T)) =>
                   LET back == MoveOp([path |-> T, blobId |-> SourceAt(A).blobId],
                                      [path |-> B, basis |-> NullBasis])
                       t == transact(CurrentTx, <<MoveInto(A, T), MoveInto(B, A), back>>, now)
                   IN
                   /\ t.err = NoErr
                   /\ blobIdsAt(t.files, A) = {SourceAt(B).blobId}
                   /\ blobIdsAt(t.files, B) = {SourceAt(A).blobId}
                   /\ blobIdsAt(t.files, T) = {}

\* The source predicate of op passes on the current tables.
SourcePasses(op) == op.source.blobId \in blobIdsAt(files, op.source.path)

\* C5: destination CAS of a move or copy whose source predicate passes.  With
\* basis null the call fails, with DEST_EXISTS (expected null, found the
\* existing blobId), if and only if a file exists at dest.path; with a blobId
\* as basis it fails if and only if no file at dest.path has that blobId,
\* with DEST_NOT_FOUND on a vacant path and DEST_CHANGED otherwise.
C5_DestCas ==
    \A op \in MoveOps(Paths2, BasisValues \ {NoBasis})
                  \cup CopyOps(Paths2, BasisValues \ {NoBasis}) :
        SourcePasses(op) =>
            LET t == transact(CurrentTx, <<op>>, now)
                found == blobIdsAt(files, op.dest.path)
            IN
            IF op.dest.basis = NullBasis
            THEN /\ (t.err # NoErr) <=> (found # {})
                 /\ (t.err # NoErr) =>
                        /\ t.err.code = "DEST_EXISTS"
                        /\ t.err.expected = "null"
                        /\ t.err.found \in found
            ELSE /\ (t.err # NoErr) <=> (op.dest.basis \notin found)
                 /\ (t.err # NoErr) =>
                        t.err.code = IF found = {} THEN "DEST_NOT_FOUND" ELSE "DEST_CHANGED"

\* C6: source predicate.  For every operation type (delete, move, copy,
\* setAttributes) the call fails with SOURCE_NOT_FOUND when no file exists at
\* source.path and with SOURCE_CHANGED when the file there has another blobId;
\* the source predicate passes only when the file has exactly that blobId.
C6_SourcePredicate ==
    \A op \in OpsOver(Paths2) :
        LET t == transact(CurrentTx, <<op>>, now)
            found == blobIdsAt(files, op.source.path)
        IN
        /\ found = {} => t.err.code = "SOURCE_NOT_FOUND"
        /\ (found # {} /\ op.source.blobId \notin found) => t.err.code = "SOURCE_CHANGED"
        /\ t.err.code \in {"SOURCE_NOT_FOUND", "SOURCE_CHANGED"}
               => op.source.blobId \notin found
        /\ t.err = NoErr => found = {op.source.blobId}

\* The position of the first operation of a journal whose predicate fails on
\* the tables left by the operations before it; 0 when every one passes.
firstFailing(t, ops, time) == eagerFrom(t, ops, 1, time).err.at

\* C7: the error of a rejected transact names the 1-based position of the
\* first operation whose predicate fails given the effects of the operations
\* before it.
C7_OperationIndex ==
    \A ops \in SeqsUpTo(OpsOver(Paths2) \ SetAttributesOps(Paths2), MaxOps) :
        LET t == transact(CurrentTx, ops, now) IN
        t.err # NoErr => t.err.at = firstFailing(CurrentTx, ops, now)

\* The classified conflicts of transact.
ConflictCodes ==
    {"SOURCE_NOT_FOUND", "SOURCE_CHANGED", "DEST_EXISTS", "DEST_NOT_FOUND", "DEST_CHANGED"}

\* The operation a caller holds is what stat would give it now.
ViewValid(op) ==
    /\ op # NoView
    /\ HasFile(op.source.path)
    /\ SourceAt(op.source.path) = op.source
    /\ op.op \in {"move", "copy"} => (Vacant(op.dest.path) /\ op.dest.basis = NullBasis)

\* Two operations that cannot both take effect: different sources moved or
\* copied to one dest.path, or one source deleted twice.
SameTarget(o1, o2) ==
    /\ o1 # NoView
    /\ o2 # NoView
    /\ \/ /\ o1.op \in {"move", "copy"}
          /\ o2.op \in {"move", "copy"}
          /\ o1.source.path # o2.source.path
          /\ o1.dest.path = o2.dest.path
          /\ o1.dest.basis = NullBasis
          /\ o2.dest.basis = NullBasis
       \/ /\ o1.op = "delete"
          /\ o2.op = "delete"
          /\ o1.source = o2.source

\* Caller c's transact runs in this step; caller c's transact has succeeded
\* and c has not read the outcome yet.
Submitted(c) == resp[c] = NoResp /\ resp'[c].call = "transact"
Won(c) == resp[c].call = "transact" /\ resp[c].err = NoErr

CopiesOfOneSource(o1, o2) ==
    /\ o1 # NoView
    /\ o2 # NoView
    /\ o1.op = "copy"
    /\ o2.op = "copy"
    /\ o1.source = o2.source
    /\ o1.dest.path # o2.dest.path

\* C9: no lost update on refCount.  Of two callers copying the same source
\* file to two different vacant paths, the first to run succeeds and so does
\* the second, and each adds one to the refCount of the source blob: a blob
\* referenced once ends with refCount 3.
C9_NoLostUpdate ==
    [][\A c \in Clients : \A d \in Clients \ {c} :
          /\ ( /\ ViewValid(view[c])
               /\ ViewValid(view[d])
               /\ CopiesOfOneSource(view[c], view[d])
               /\ resp[d] = NoResp
               /\ Submitted(c) )
                 => /\ resp'[c].err = NoErr
                    /\ refCountOf(blobs', view[c].source.blobId)
                           = refCountOf(blobs, view[c].source.blobId) + 1
          /\ ( /\ Won(c)
               /\ CopiesOfOneSource(view[c], view[d])
               /\ ViewValid(view[d])
               /\ Submitted(d) )
                 => /\ resp'[d].err = NoErr
                    /\ refCountOf(blobs', view[d].source.blobId)
                           = refCountOf(blobs, view[d].source.blobId) + 1]_vars

\* Both copies have succeeded and the source blob, committed with refCount 1,
\* now has refCount 3 and three files.
C9_Witness ==
    /\ Won("c1")
    /\ Won("c2")
    /\ CopiesOfOneSource(view["c1"], view["c2"])
    /\ refCountOf(blobs, view["c1"].source.blobId) = 3
    /\ refs(files, view["c1"].source.blobId) = 3

\* C10: every file row's blobId has a row in the blobs table, under any
\* interleaving of transact, commitFiles, restore and the steps of a Blob GC
\* sweep.
C10_FileHasBlob ==
    \A f \in files : blobsByBlobId(blobs, f.blobId) # {}

\* C11: path uniqueness.  After any sequence of commitFiles, transact and
\* restore calls no two file rows have the same path.
C11_PathUnique ==
    \A f \in files : \A g \in files : f.path = g.path => f = g

\* ------------------------------------------------------------------------
\* Uploads and commits only, with two different metadata values.
\* ------------------------------------------------------------------------
NextCommit ==
    \/ PrepareUpload
    \/ WriteBlobOf(Metas2)
    \/ \E entries \in SeqsUpTo(EntriesOver(Paths2), MaxEntries) : CommitFiles("c1", entries)
    \/ Return("c1")

SpecCommit == Init /\ [][NextCommit]_vars

AllEntries == SeqsUpTo(EntriesOver(Paths2), MaxEntries)

\* The entries of a call whose blobId has no upload row with contentType and
\* size in the given uploads table.
lackingUpload(us, entries) ==
    {k \in 1..Len(entries) :
        ~ \E u \in us : u.blobId = entries[k].blobId /\ u.meta # NoMeta}

\* C12: upload record required.  A commitFiles call in which some entry's
\* blobId has no upload row carrying contentType and size fails with the
\* "upload records not found" error and leaves files, blobs and uploads as
\* they were; after a successful call every committed blobId has a blob row,
\* and each such row carries the contentType and size of the upload row.
C12_UploadRequired ==
    \A entries \in AllEntries :
        LET t == commitFiles(CurrentTx, entries, now) IN
        /\ lackingUpload(uploads, entries) # {} =>
               /\ t.err # NoErr
               /\ t.err.code = "UPLOAD_NOT_FOUND"
               /\ t.files = files /\ t.blobs = blobs /\ t.uploads = uploads
        /\ (t.err = NoErr /\ ~t.full) =>
               \A k \in 1..Len(entries) :
                   /\ blobsByBlobId(t.blobs, entries[k].blobId) # {}
                   /\ \A b \in blobsByBlobId(t.blobs, entries[k].blobId) :
                          \E u \in uploads : u.blobId = b.blobId /\ u.meta = b.meta
                                             /\ b.meta # NoMeta

\* A commit was rejected for an upload row without metadata, after another
\* commit created a blob row with the second metadata value.
C12_Witness ==
    /\ resp["c1"].call = "commitFiles"
    /\ resp["c1"].err # NoErr
    /\ resp["c1"].err.code = "UPLOAD_NOT_FOUND"
    /\ \E u \in uploads : u.meta = NoMeta
    /\ \E b \in blobs : b.meta = "image/png:7"

\* C13: upload consumption.  After a successful commitFiles no upload row
\* exists for any committed blobId, the blob row of each committed blobId
\* exists with refCount 1, and a later commitFiles naming one of these
\* blobIds is rejected.
C13_UploadConsumed ==
    \A entries \in AllEntries :
        LET t == commitFiles(CurrentTx, entries, now) IN
        (t.err = NoErr /\ ~t.full) =>
            \A k \in 1..Len(entries) :
                LET blobId == entries[k].blobId IN
                /\ uploadsByBlobId(t.uploads, blobId) = {}
                /\ blobsByBlobId(t.blobs, blobId) # {}
                /\ \A b \in blobsByBlobId(t.blobs, blobId) : b.refCount = 1
                /\ \A later \in AllEntries :
                       (\E j \in 1..Len(later) : later[j].blobId = blobId) =>
                           commitFiles(t, later, now).err # NoErr

\* C14: compare-and-swap of commitFiles.  For a call of one entry whose
\* upload row exists: with basis null the call is rejected exactly when a
\* file exists at the path; with basis <id> it is rejected exactly when the
\* path is vacant or holds a different blobId; with basis undefined it is
\* never rejected, and when a file exists at the path the file is repointed
\* and every row of the old blob has its refCount decremented by one.
C14_CommitCas ==
    \A e \in EntriesOver(Paths2) :
        LET t == commitFiles(CurrentTx, <<e>>, now)
            found == blobIdsAt(files, e.path)
            rejected == t.err # NoErr
        IN
        (lackingUpload(uploads, <<e>>) = {} /\ ~t.full) =>
            /\ e.basis = NullBasis => (rejected <=> found # {})
            /\ e.basis \in BlobIds => (rejected <=> found # {e.basis})
            /\ e.basis = NoBasis =>
                   /\ ~rejected
                   /\ blobIdsAt(t.files, e.path) = {e.blobId}
                   /\ \A old \in found :
                          \A b \in blobsByBlobId(blobs, old) :
                              \E b2 \in t.blobs : b2.id = b.id /\ b2.refCount = b.refCount - 1

\* An entry's own check, on the given tables: its upload row with metadata
\* is missing, or its basis does not match what its path holds.
entryCheckFails(us, fs, e) ==
    \/ lackingUpload(us, <<e>>) # {}
    \/ e.basis = NullBasis /\ blobIdsAt(fs, e.path) # {}
    \/ e.basis \in BlobIds /\ blobIdsAt(fs, e.path) # {e.basis}

\* C15: batch semantics of commitFiles.  The upload-record and CAS checks of
\* all entries are evaluated against the tables as they are before the call:
\* if any entry fails its check on that state the call is rejected and no
\* entry is applied, and if no entry fails its check on that state the call
\* is not rejected by an upload-record or CAS check, whatever the earlier
\* entries of the same call write.
C15_BatchChecks ==
    \A entries \in AllEntries :
        LET t == commitFiles(CurrentTx, entries, now)
            failing == {k \in 1..Len(entries) : entryCheckFails(uploads, files, entries[k])}
        IN
        /\ failing # {} =>
               /\ t.err # NoErr
               /\ t.files = files /\ t.blobs = blobs /\ t.uploads = uploads
        /\ failing = {} => t.err.code \notin {"UPLOAD_NOT_FOUND", "CAS_CONFLICT"}

\* A call of two entries was rejected for the CAS check of its second entry.
C15_Witness ==
    /\ resp["c1"].call = "commitFiles"
    /\ resp["c1"].err.code = "CAS_CONFLICT"
    /\ resp["c1"].err.at = 2

\* ------------------------------------------------------------------------
\* The Upload GC, Blob GC and File GC sweeps, step by step, among uploads,
\* commits, deletes and deadlines on one path, the clock, the stored config
\* and its freezeGc flag.
\* ------------------------------------------------------------------------
OnePath == {"/a.txt"}
FileDeadlines == {1}

NextSweeps ==
    \/ PrepareUpload
    \/ WriteBlob
    \/ \E e \in EntriesWith(OnePath, {NoBasis}) : CommitFiles("c1", <<e>>)
    \/ \E op \in DeleteOps(OnePath) : Transact("c1", <<op>>)
    \/ Return("c1")
    \/ Tick
    \/ EnsureConfigStored
    \/ SetFreezeGc
    \/ UgcFind
    \/ UgcDeleteFromStorage
    \/ UgcDeleteRecords
    \/ BgcFind
    \/ BgcDeleteFromStorage
    \/ BgcDeleteRecords
    \/ \E e \in FileDeadlines : SetAttributes("/a.txt", e)
    \/ FgcFind
    \/ FgcDeleteRecords

SpecSweeps == Init /\ [][NextSweeps]_vars

\* C16: failure isolation in Upload GC and Blob GC.  When a sweep ends, every
\* candidate whose storage delete returned deleted or not_found has no
\* metadata row any more, and every candidate whose storage delete threw
\* keeps the row it had; one candidate's error does not keep the others from
\* being deleted.
C16_FailureIsolation ==
    [][/\ (ugc.pc = "stored" /\ ugc'.pc = "idle") =>
              \A r \in ugc.results :
                  /\ r.status \in {"deleted", "not_found"} => r.id \notin Ids(uploads')
                  /\ r.status = "error" => (r.id \in Ids(uploads) => r.id \in Ids(uploads'))
       /\ (bgc.pc = "stored" /\ bgc'.pc = "idle") =>
              \A c \in bgc.orphaned :
                  /\ c.id \in bgc.okToDelete => c.id \notin Ids(blobs')
                  /\ c.id \notin bgc.okToDelete => (c.id \in Ids(blobs) => c.id \in Ids(blobs'))
      ]_vars

\* C17: self-scheduling.  An Upload GC or Blob GC sweep that ends schedules a
\* follow-up run of itself exactly when it fetched a full batch
\* (GC_BATCH_SIZE candidates) and none of its storage deletes threw.
C17_SelfSchedule ==
    [][/\ (ugc.pc = "stored" /\ ugc'.pc = "idle") =>
              (ugc'.scheduled <=>
                   /\ Cardinality(ugc.expired) = GC_BATCH_SIZE
                   /\ \A r \in ugc.results : r.status # "error")
       /\ (bgc.pc = "stored" /\ bgc'.pc = "idle") =>
              (bgc'.scheduled <=>
                   /\ Cardinality(bgc.orphaned) = GC_BATCH_SIZE
                   /\ bgc.okToDelete = Ids(bgc.orphaned))
       /\ (ugc.pc = "idle" /\ ugc'.pc = "idle") => (ugc' = ugc \/ ~ugc'.scheduled)
       /\ (bgc.pc = "idle" /\ bgc'.pc = "idle") => (bgc' = bgc \/ ~bgc'.scheduled)
      ]_vars

Frozen == ~config.stored \/ config.freezeGc

graceInForce ==
    IF config.blobGracePeriod = Undefined THEN DEFAULT_BLOB_GRACE_PERIOD_S
    ELSE config.blobGracePeriod

\* C19: grace period.  Every candidate a Blob GC sweep selects has, at the
\* moment of selection, refCount = 0 and updatedAt earlier than now minus the
\* grace period (the stored blobGracePeriod, or the default); a blob row is
\* removed only by a sweep that selected it, and a sweep's storage deletes
\* remove only the objects of its candidates.
C19_GracePeriod ==
    [][/\ (bgc.pc = "idle" /\ bgc'.pc = "found") =>
              \A c \in bgc'.orphaned :
                  \E b \in blobs :
                      /\ b.id = c.id /\ b.blobId = c.blobId
                      /\ b.refCount = 0
                      /\ b.updatedAt < now - graceInForce
       /\ \A b \in blobs :
              b.id \notin Ids(blobs') => (bgc.pc = "stored" /\ b.id \in Ids(bgc.orphaned))
       /\ (bgc.pc = "found" /\ bgc'.pc = "stored") =>
              store \ store' \subseteq {c.blobId : c \in bgc.orphaned}
      ]_vars

\* A sweep holds a candidate while another blob row with refCount = 0,
\* orphaned too recently, was not selected.
C19_Witness ==
    /\ bgc.pc = "found"
    /\ bgc.orphaned # {}
    /\ \E b \in blobs : b.id \notin Ids(bgc.orphaned) /\ b.refCount = 0
                         /\ b.updatedAt >= now - graceInForce

\* C20: upload expiry.  Every candidate an Upload GC sweep selects has
\* expiresAt earlier than the sweep's now; an upload row disappears outside a
\* commit only at the end of a sweep that selected it, so an upload whose
\* expiresAt is not yet past is never removed by a sweep; and when a sweep
\* ends, every candidate for which the blob store reported not_found has its
\* row removed, like those whose object was deleted.
C20_UploadExpiry ==
    [][/\ (ugc.pc = "idle" /\ ugc'.pc = "found") =>
              /\ ugc'.threshold = now
              /\ \A c \in ugc'.expired :
                     \E u \in uploads : u.id = c.id /\ u.blobId = c.blobId /\ u.expiresAt < now
       /\ \A u \in uploads :
              (u.id \notin Ids(uploads') /\ resp' = resp) =>
                  /\ ugc.pc = "stored"
                  /\ u.id \in Ids(ugc.expired)
                  /\ u.expiresAt < ugc.threshold
       /\ (ugc.pc = "stored" /\ ugc'.pc = "idle") =>
              \A r \in ugc.results : r.status = "not_found" => r.id \notin Ids(uploads')
      ]_vars

\* ------------------------------------------------------------------------
\* A backlog and nothing else: expired uploads and orphaned blobs past the
\* grace period, a stored config, one Upload GC and one Blob GC run due, no
\* storage error and no other call.  A run starts when it is due: the first
\* one, then each follow-up the run before it scheduled.
\* ------------------------------------------------------------------------
BacklogUploads ==
    {[id |-> 1, blobId |-> "u1", expiresAt |-> 1, meta |-> NoMeta],
     [id |-> 2, blobId |-> "u2", expiresAt |-> 1, meta |-> "text/plain:100"],
     [id |-> 3, blobId |-> "u3", expiresAt |-> 2, meta |-> "text/plain:100"]}

BacklogBlobs ==
    {[id |-> 1, blobId |-> "b1", meta |-> "text/plain:100", refCount |-> 0, updatedAt |-> 0],
     [id |-> 2, blobId |-> "b2", meta |-> "text/plain:100", refCount |-> 0, updatedAt |-> 0],
     [id |-> 3, blobId |-> "b3", meta |-> "text/plain:100", refCount |-> 0, updatedAt |-> 1]}

InitBacklog ==
    /\ files = {}
    /\ uploads \in SUBSET BacklogUploads
    /\ blobs \in SUBSET BacklogBlobs
    /\ store \in {{"u1", "u2", "u3", "b1", "b2", "b3"}, {"u2", "u3", "b2", "b3"}}
    /\ config = ensureConfigStored(NoConfig, 1)
    /\ now = MaxTime
    /\ bgc = [BgcIdle EXCEPT !.scheduled = TRUE]
    /\ ugc = [UgcIdle EXCEPT !.scheduled = TRUE]
    /\ fgc = FgcIdle
    /\ resp = [c \in Clients |-> NoResp]
    /\ view = [c \in Clients |-> NoView]

UgcRunDue == ugc.scheduled /\ UgcFind
BgcRunDue == bgc.scheduled /\ BgcFind
UgcDeleteFromStorageOk == UgcDeleteFromStorageOf({{}})
BgcDeleteFromStorageOk == BgcDeleteFromStorageOf({{}})

NextBacklog ==
    \/ UgcRunDue
    \/ UgcDeleteFromStorageOk
    \/ UgcDeleteRecords
    \/ BgcRunDue
    \/ BgcDeleteFromStorageOk
    \/ BgcDeleteRecords

\* Scheduled functions run: every step of a sweep that can be taken is taken.
SpecBacklog ==
    /\ InitBacklog
    /\ [][NextBacklog]_vars
    /\ WF_vars(UgcRunDue) /\ WF_vars(UgcDeleteFromStorageOk) /\ WF_vars(UgcDeleteRecords)
    /\ WF_vars(BgcRunDue) /\ WF_vars(BgcDeleteFromStorageOk) /\ WF_vars(BgcDeleteRecords)

\* A second run of each sweep, on what a first run left, neither throws nor
\* changes the tables.
secondRunChangesNothing ==
    /\ \A r1 \in gcExpiredUploads(config, uploads, store, now) :
           \A r2 \in gcExpiredUploads(config, r1.uploads, r1.store, now) :
               ~r1.threw /\ ~r2.threw /\ r2.uploads = r1.uploads
    /\ \A r1 \in gcOrphanedBlobs(config, blobs, store, now) :
           \A r2 \in gcOrphanedBlobs(config, r1.blobs, r1.store, now) :
               ~r1.threw /\ ~r2.threw /\ r2.blobs = r1.blobs

C22_BacklogDrains ==
    <>[](/\ ugc = UgcIdle
         /\ bgc = BgcIdle
         /\ expiredRows(uploads, now) = {}
         /\ orphanedRows(blobs, now - gracePeriodS(config)) = {})

\* A follow-up run holds the last expired upload after a full first batch.
C22_Witness ==
    /\ ugc.pc = "found"
    /\ ugc.expired = {[id |-> 3, blobId |-> "u3"]}
    /\ "u2" \notin store

\* The step of File GC that runs its candidate query and finds a batch, and
\* the step that runs deleteExpiredFileRecords on it.
FgcSelects == fgc.pc = "idle" /\ fgc'.pc = "found"
FgcDeletes == fgc.pc = "found" /\ fgc'.pc = "idle"

\* Every candidate is a file row whose expiresAt is set and earlier than now,
\* and a batch holds at most GC_BATCH_SIZE candidates.
fgcSelection ==
    /\ Cardinality(fgc'.expired) <= GC_BATCH_SIZE
    /\ \A c \in fgc'.expired : \E f \in files :
           /\ f.id = c.id
           /\ f.blobId = c.blobId
           /\ f.expiresAt # Undefined
           /\ f.expiresAt < now

\* The delete step leaves the store and the set of blob rows alone and
\* removes file rows of the batch only.
fgcFrame ==
    /\ store' = store
    /\ uploads' = uploads
    /\ Ids(blobs') = Ids(blobs)
    /\ files' \subseteq files
    /\ \A f \in files \ files' : f.id \in heldFileRows /\ f.expiresAt # Undefined

\* The delete step removes every candidate's file row and takes from every
\* blob one reference per removed row that referenced it.
fgcEffect ==
    /\ \A c \in fgc.expired : c.id \notin Ids(files')
    /\ \A b \in blobs : \E b2 \in blobs' :
           /\ b2.id = b.id
           /\ b2.refCount = b.refCount -
                  Cardinality({f \in files \ files' : f.blobId = b.blobId})

\* C23: File GC selects only files whose expiresAt is set and earlier than
\* now, at most a batch per run; for each it deletes the file row and
\* decrements the referenced blob's refCount by one; it never changes the
\* blob store and never deletes a blob row.
C23_FileGc ==
    [][/\ FgcSelects => fgcSelection
       /\ FgcDeletes => fgcFrame /\ fgcEffect]_vars

\* C24: refcount conservation under File GC races.  Whatever transact and
\* commitFiles calls ran between the candidate query and the delete
\* mutation, a sweep that starts its delete mutation with every blob's
\* refCount equal to the number of file rows referencing it ends with the
\* same equality.
C24_FileGcRace ==
    [][(FgcDeletes /\ \A b \in blobs : b.refCount = refs(files, b.blobId))
          => \A b \in blobs' : b.refCount = refs(files', b.blobId)]_vars

\* C25: ensureConfigStored preserves freezeGc.  When the stored config has
\* freezeGc = true, the config stored after an ensureConfigStored call with
\* any client config, equal to the stored one or not, has freezeGc = true.
C25_FreezeGcPreserved ==
    (config.stored /\ config.freezeGc)
        => \A g \in GracePeriods : ensureConfigStored(config, g).freezeGc

\* C26: overwrite with basis undefined.  A move or copy whose source
\* predicate passes and whose dest, with basis undefined, is another path
\* that holds a file with another blobId succeeds; afterwards dest.path is
\* bound to the source's blobId, the blob previously at dest has one
\* reference fewer, and for a move the source path is vacant and the source
\* blob's refCount unchanged.
C26_OverwriteUndefinedBasis ==
    \A op \in MoveOps(Paths2, {NoBasis}) \cup CopyOps(Paths2, {NoBasis}) :
        LET found == blobIdsAt(files, op.dest.path) IN
        (/\ HasFile(op.source.path)
         /\ SourceAt(op.source.path) = op.source
         /\ op.dest.path # op.source.path
         /\ found # {}
         /\ op.source.blobId \notin found) =>
            LET t == transact(CurrentTx, <<op>>, now) IN
            /\ t.err = NoErr
            /\ blobIdsAt(t.files, op.dest.path) = {op.source.blobId}
            /\ \A d \in found : refCountOf(t.blobs, d) = refCountOf(blobs, d) - 1
            /\ op.op = "move" =>
                   /\ blobIdsAt(t.files, op.source.path) = {}
                   /\ refCountOf(t.blobs, op.source.blobId)
                          = refCountOf(blobs, op.source.blobId)

\* ------------------------------------------------------------------------
\* Files that carry attributes
\* ------------------------------------------------------------------------
\* File rows as the attribute tests create them: /a.txt, with or without a
\* deadline, and possibly /b.txt, with or without another deadline.
AttrDeadlines == {Undefined, 1, 2}

InitAttrs ==
    /\ \E ea \in AttrDeadlines \ {2}, eb \in AttrDeadlines \ {1}, both \in BOOLEAN :
           /\ files = {[id |-> 1, path |-> "/a.txt", blobId |-> "blobA", expiresAt |-> ea]}
                          \cup (IF both
                                THEN {[id |-> 2, path |-> "/b.txt", blobId |-> "blobB",
                                       expiresAt |-> eb]}
                                ELSE {})
           /\ blobs = {[id |-> 1, blobId |-> "blobA", meta |-> "text/plain:100",
                        refCount |-> 1, updatedAt |-> 0]}
                          \cup (IF both
                                THEN {[id |-> 2, blobId |-> "blobB", meta |-> "text/plain:100",
                                       refCount |-> 1, updatedAt |-> 0]}
                                ELSE {})
           /\ store = {b.blobId : b \in blobs}
    /\ uploads = {}
    /\ config = NoConfig
    /\ now = 0
    /\ bgc = BgcIdle
    /\ ugc = UgcIdle
    /\ fgc = FgcIdle
    /\ resp = [c \in Clients |-> NoResp]
    /\ view = [c \in Clients |-> NoView]

NextAttrs ==
    \/ WriteBlob
    \/ \E entries \in SeqsUpTo(EntriesWith(Paths2, {NoBasis}), 1) : CommitFiles("c1", entries)
    \/ \E ops \in SeqsUpTo(OpsOver(Paths2), 1) : Transact("c1", ops)
    \/ Return("c1")

SpecAttrs == InitAttrs /\ [][NextAttrs]_vars

\* C27: after a successful move the file at dest.path has no attributes,
\* whatever attributes the source file or a file overwritten at dest had.
C27_MoveClearsAttributes ==
    \A op \in MoveOps(Paths2, BasisValues) :
        LET t == transact(CurrentTx, <<op>>, now) IN
        t.err = NoErr =>
            \A f \in filesByPath(t.files, op.dest.path) : f.expiresAt = Undefined

\* C28: after a successful copy to another path the file at dest.path has
\* no attributes, both when dest is new and when an existing dest is
\* overwritten, and the source file's path, blobId and attributes are
\* unchanged.
C28_CopyClearsAttributes ==
    \A op \in CopyOps(Paths2, BasisValues) :
        LET t == transact(CurrentTx, <<op>>, now) IN
        (t.err = NoErr /\ op.dest.path # op.source.path) =>
            /\ \A f \in filesByPath(t.files, op.dest.path) : f.expiresAt = Undefined
            /\ filesByPath(t.files, op.source.path) = filesByPath(files, op.source.path)

\* C30: a commitFiles entry that overwrites an existing file without naming
\* attributes leaves the file without attributes.
C30_CommitOverwriteAttributes ==
    \A entry \in EntriesWith(Paths2, {NoBasis}) :
        LET t == commitFiles(CurrentTx, <<entry>>, now) IN
        (t.err = NoErr /\ ~t.full /\ filesByPath(files, entry.path) # {}) =>
            \A f \in filesByPath(t.files, entry.path) :
                f.blobId = entry.blobId /\ f.expiresAt = Undefined


\* A setAttributes operation on source s; expiresAt is a deadline, 0 for
\* null, or Undefined for an absent key.
SetAttributesTo(s, expiresAt) ==
    [op |-> "setAttributes", source |-> s,
     dest |-> [path |-> s.path, basis |-> NoBasis], attributes |-> expiresAt]

\* C29: setAttributes is tri-state on expiresAt.  On a file that passes the
\* source predicate the operation succeeds; a number sets expiresAt, null
\* clears it, an absent key keeps the current value; no other file row and
\* no blob row changes.
C29_SetAttributesTriState ==
    \A s \in SourcesOver(Paths2) : \A a \in {Undefined, 0, 1, 2} :
        (HasFile(s.path) /\ SourceAt(s.path) = s) =>
            LET t == transact(CurrentTx, <<SetAttributesTo(s, a)>>, now) IN
            /\ t.err = NoErr
            /\ t.blobs = blobs
            /\ t.files = {IF f.path # s.path THEN f
                          ELSE [f EXCEPT !.expiresAt =
                                    IF a = Undefined THEN @ ELSE IF a = 0 THEN Undefined ELSE a] :
                          f \in files}


\* C31: stat(path) returns null if and only if no file row exists at path;
\* when a file row exists and its blob row exists it returns the file's path
\* and blobId with the blob's metadata; when a file row exists and its blob
\* row is missing it raises the invariant-violation error.
C31_Stat ==
    \A p \in Paths2 :
        LET r == stat(files, blobs, p)
            frows == filesByPath(files, p)
        IN
        /\ (r.err = NoErr /\ r.file = NoFile) <=> (frows = {})
        /\ \A f \in frows :
               IF blobsByBlobId(blobs, f.blobId) = {}
               THEN r.err.code = "INVARIANT_VIOLATION"
               ELSE /\ r.err = NoErr
                    /\ r.file.path = p
                    /\ r.file.blobId = f.blobId
                    /\ \E b \in blobsByBlobId(blobs, f.blobId) : r.file.meta = b.meta


\* ------------------------------------------------------------------------
\* list
\* ------------------------------------------------------------------------
\* Paths of the listing specification are strings over an alphabet of
\* MaxChar characters, written as sequences of their ranks in the order of
\* the index; the greatest character is "\uffff".
MaxChar == 3
MaxPathLen == 2
MaxListed == 3
MaxNumItems == 2
ListPaths == UNION {[1..n -> 1..MaxChar] : n \in 1..MaxPathLen}
Prefixes == UNION {[1..n -> 1..MaxChar] : n \in 0..MaxPathLen}

\* The order of strings in an index.
strLess(a, b) ==
    \/ Len(a) < Len(b) /\ \A i \in 1..Len(a) : a[i] = b[i]
    \/ \E k \in 1..Len(a) :
           /\ k <= Len(b)
           /\ a[k] < b[k]
           /\ \A i \in 1..(k - 1) : a[i] = b[i]

startsWith(path, prefix) ==
    Len(prefix) <= Len(path) /\ SubSeq(path, 1, Len(prefix)) = prefix

\* The order of the index "path" on files: by path, then by age of the row.
keyLess(f, g) == strLess(f.path, g.path) \/ (f.path = g.path /\ f.id < g.id)

RECURSIVE inIndexOrder(_)
inIndexOrder(rows) ==
    IF rows = {} THEN <<>>
    ELSE LET first == CHOOSE f \in rows : \A g \in rows \ {f} : keyLess(f, g) IN
         <<first>> \o inIndexOrder(rows \ {first})

\* withIndex("path", q => q.gte("path", prefix).lt("path", prefix + "\uffff")),
\* or the whole index when the prefix is empty.
listRange(fs, prefix) ==
    IF prefix = <<>> THEN fs
    ELSE {f \in fs : ~strLess(f.path, prefix) /\ strLess(f.path, Append(prefix, MaxChar))}

\* The cursor of a first page, below every index key.
NullCursor == [path |-> <<>>, id |-> 0]

\* paginate({cursor, numItems}): the next numItems rows after the cursor; the
\* cursor to continue from is the key of the last row of the page.
paginate(rows, cursor, numItems) ==
    LET rest == {f \in rows : keyLess(cursor, f)}
        page == {f \in rest : Cardinality({g \in rest : keyLess(g, f)}) < numItems}
        ordered == inIndexOrder(page)
    IN [page |-> ordered,
        continueCursor |-> IF page = {} THEN cursor
                           ELSE [path |-> ordered[Len(ordered)].path,
                                 id |-> ordered[Len(ordered)].id],
        isDone |-> Cardinality(page) < numItems]

\* list: one page of the range, each file joined with its blob row.
list(fs, bs, prefix, cursor, numItems) ==
    LET result == paginate(listRange(fs, prefix), cursor, numItems)
        rows == {result.page[i] : i \in 1..Len(result.page)}
    IN
    IF \E f \in rows : NotUnique(blobsByBlobId(bs, f.blobId))
    THEN [err |-> NotUniqueErr("blobId"), page |-> <<>>,
          continueCursor |-> cursor, isDone |-> TRUE]
    ELSE IF \E f \in rows : blobsByBlobId(bs, f.blobId) = {}
    THEN [err |-> Err("INVARIANT_VIOLATION", "", "", "null", 0), page |-> <<>>,
          continueCursor |-> cursor, isDone |-> TRUE]
    ELSE [err |-> NoErr,
          page |-> [i \in 1..Len(result.page) |->
                       [path |-> result.page[i].path, blobId |-> result.page[i].blobId,
                        meta |-> The(blobsByBlobId(bs, result.page[i].blobId)).meta]],
          continueCursor |-> result.continueCursor,
          isDone |-> result.isDone]

\* The pages from cursor on, following continueCursor until isDone or an error.
RECURSIVE listFrom(_, _, _, _, _)
listFrom(fs, bs, prefix, cursor, numItems) ==
    LET r == list(fs, bs, prefix, cursor, numItems) IN
    IF r.err # NoErr \/ r.isDone THEN [err |-> r.err, items |-> r.page]
    ELSE LET more == listFrom(fs, bs, prefix, r.continueCursor, numItems) IN
         [err |-> more.err, items |-> r.page \o more.items]

\* A table of files with distinct paths, all of one committed blob.
InitList ==
    /\ \E P \in SUBSET ListPaths :
           /\ Cardinality(P) <= MaxListed
           /\ \E ids \in [P -> 1..MaxListed] :
                  /\ \A p, q \in P : ids[p] = ids[q] => p = q
                  /\ files = {[id |-> ids[p], path |-> p, blobId |-> "blobA",
                               expiresAt |-> Undefined] : p \in P}
    /\ blobs = {[id |-> 1, blobId |-> "blobA", meta |-> "text/plain:100",
                 refCount |-> Cardinality(files), updatedAt |-> 0]}
    /\ uploads = {}
    /\ store = {"blobA"}
    /\ config = NoConfig
    /\ now = 0
    /\ bgc = BgcIdle
    /\ ugc = UgcIdle
    /\ fgc = FgcIdle
    /\ resp = [c \in Clients |-> NoResp]
    /\ view = [c \in Clients |-> NoView]

\* A caller asks for the first page of a prefix.
ListFirst(c, prefix, numItems) ==
    /\ view[c] = NoView
    /\ LET r == list(files, blobs, prefix, NullCursor, numItems) IN
       view' = [view EXCEPT ![c] =
                   [op |-> "list", prefix |-> prefix, numItems |-> numItems,
                    items |-> r.page, cursor |-> r.continueCursor, isDone |-> r.isDone]]
    /\ UNCHANGED <<files, blobs, uploads, store, config, now, bgc, ugc, fgc, resp>>

\* The caller asks for the page after the one it holds.
ListNext(c) ==
    /\ view[c].op = "list"
    /\ ~view[c].isDone
    /\ LET r == list(files, blobs, view[c].prefix, view[c].cursor, view[c].numItems) IN
       view' = [view EXCEPT ![c] =
                   [@ EXCEPT !.items = @ \o r.page, !.cursor = r.continueCursor,
                             !.isDone = r.isDone]]
    /\ UNCHANGED <<files, blobs, uploads, store, config, now, bgc, ugc, fgc, resp>>

\* The caller has the whole listing and drops it.
ListEnd(c) ==
    /\ view[c].op = "list"
    /\ view[c].isDone
    /\ view' = [view EXCEPT ![c] = NoView]
    /\ UNCHANGED <<files, blobs, uploads, store, config, now, bgc, ugc, fgc, resp>>

NextList ==
    \/ \E prefix \in Prefixes, n \in 1..MaxNumItems : ListFirst("c1", prefix, n)
    \/ ListNext("c1")
    \/ ListEnd("c1")

SpecList == InitList /\ [][NextList]_vars

\* What list hands out for a file row.
Listed(f) == [path |-> f.path, blobId |-> f.blobId, meta |-> "text/plain:100"]

\* C32: list(prefix) returns exactly the files whose path starts with prefix,
\* in ascending path order, and the pages from cursor = null on, following
\* continueCursor until isDone, concatenate to that result without
\* duplicates or omissions.
C32_ListPrefix ==
    \A prefix \in Prefixes : \A n \in 1..MaxNumItems :
        LET r == listFrom(files, blobs, prefix, NullCursor, n)
            expected == inIndexOrder({f \in files : startsWith(f.path, prefix)})
        IN
        /\ r.err = NoErr
        /\ r.items = [i \in 1..Len(expected) |-> Listed(expected[i])]


\* deleteByPath: stat the path; without a file return; otherwise transact
\* with one delete whose source is what stat returned.
deleteByPath(t, path, time) ==
    LET source == stat(t.files, t.blobs, path) IN
    IF source.err # NoErr THEN Throw(t, source.err)
    ELSE IF source.file = NoFile THEN t
    ELSE transact(t, <<DeleteOp([path |-> source.file.path,
                                 blobId |-> source.file.blobId])>>, time)

\* C33: deleteByPath is idempotent.  On a path with no file it returns
\* without error and changes nothing; on a path with a file it removes the
\* file and takes one reference from its blob; a second call right after the
\* first returns without error and changes nothing more.
C33_DeleteByPathIdempotent ==
    \A p \in Paths2 :
        LET once == deleteByPath(CurrentTx, p, now)
            twice == deleteByPath(once, p, now)
            here == filesByPath(files, p)
        IN
        /\ once.err = NoErr
        /\ here = {} => (once.files = files /\ once.blobs = blobs)
        /\ here # {} =>
               /\ once.files = files \ here
               /\ \A f \in here :
                      refCountOf(once.blobs, f.blobId) = refCountOf(blobs, f.blobId) - 1
        /\ twice.err = NoErr
        /\ twice.files = once.files
        /\ twice.blobs = once.blobs


\* C34: storage safety under the Upload GC / commit race.  When the sweep
\* asks the blob store to delete its candidates' objects no file row
\* references any of those blobIds, and the sweep's deleteUploadRecords does
\* not throw.
C34_UploadGcCommitRace ==
    [][/\ (ugc.pc = "found" /\ ugc'.pc = "stored") =>
              \A c \in ugc.expired : \A f \in files : f.blobId # c.blobId
       /\ (ugc.pc = "stored" /\ ugc'.pc = "idle") =>
              ~deleteUploadRecordsThrows(uploads, okToDelete(ugc.results))]_vars


\* C35: File GC deletes a file only if it is still expired when it is
\* deleted.  Every file row the delete step removes has a deadline that has
\* passed and still references the blob it referenced when it was selected:
\* a row whose deadline was cleared or postponed, or that a commit
\* overwrote since the candidate query, stays.
C35_StillExpired ==
    [][FgcDeletes =>
          \A f \in files \ files' :
              /\ f.expiresAt # Undefined
              /\ f.expiresAt < now
              /\ \E c \in fgc.expired : c.id = f.id /\ c.blobId = f.blobId]_vars


\* C36: in every state reached by commitFiles and transact calls the blobs
\* table has at most one row per blobId.
C36_BlobRowUnique ==
    \A b \in blobs : \A c \in blobs : b.blobId = c.blobId => b = c


\* C37: a successful commitFiles call leaves every blobId it committed
\* referenced by a file row, with refCount at least 1, and none of its
\* entries with basis null has overwritten a file, one written by an earlier
\* entry of the same call included.
C37_CommitLeavesNoOrphan ==
    \A entries \in AllEntries :
        LET t == commitFiles(CurrentTx, entries, now) IN
        (t.err = NoErr /\ ~t.full) =>
            \A k \in 1..Len(entries) :
                /\ \E f \in t.files : f.blobId = entries[k].blobId
                /\ \A b \in blobsByBlobId(t.blobs, entries[k].blobId) : b.refCount >= 1
                /\ entries[k].basis = NullBasis =>
                       /\ filesByPath(files, entries[k].path) = {}
                       /\ \A j \in 1..(k - 1) : entries[j].path # entries[k].path


\* C38: every change of a blob's refCount by transact, commitFiles or
\* restore, the insertion of its row included, sets the row's updatedAt to
\* the time of the change, and a row with refCount 0 is eligible for Blob GC
\* only when more than the grace period has passed since that time.
C38_UpdatedAtFollowsRefCount ==
    [][/\ \A b2 \in blobs' :
              (\A b \in blobs : b.id = b2.id => b.refCount # b2.refCount)
                  => b2.updatedAt = now
       /\ \A b \in orphanedRows(blobs, now - gracePeriodS(config)) :
              now > b.updatedAt + gracePeriodS(config)]_vars

\* A blob whose refCount came back to 0 after the clock had advanced is kept
\* from Blob GC by its new updatedAt.
C38_Witness ==
    /\ config.stored
    /\ \E b \in blobs :
           /\ b.refCount = 0
           /\ b.updatedAt > 0
           /\ b \notin orphanedRows(blobs, now - gracePeriodS(config))
           /\ now - gracePeriodS(config) > 0

\* ------------------------------------------------------------------------
\* A move or copy onto its own source
\* ------------------------------------------------------------------------
\* The move or copy of the file row f onto its own path, with dest.basis
\* undefined or equal to the file's blobId.
SelfOp(kind, f, basisOwn) ==
    [op |-> kind, source |-> [path |-> f.path, blobId |-> f.blobId],
     dest |-> [path |-> f.path, basis |-> IF basisOwn THEN f.blobId ELSE NoBasis]]

\* C39: a move or copy whose dest.path equals its source.path, with basis
\* undefined or the file's own blobId, never destroys the file: either the
\* call is rejected and no table changes, or the file is still at the path
\* with the same blobId, its blob row is still there and the row's refCount
\* equals the number of files that reference the blob.
C39_SelfOpKeepsFile ==
    \A f \in files : \A kind \in {"move", "copy"} : \A basisOwn \in BOOLEAN :
        LET t == transact(CurrentTx, <<SelfOp(kind, f, basisOwn)>>, now) IN
        \/ /\ t.err # NoErr
           /\ t.files = files /\ t.blobs = blobs /\ t.uploads = uploads
        \/ /\ t.err = NoErr
           /\ blobIdsAt(t.files, f.path) = {f.blobId}
           /\ blobsByBlobId(blobs, f.blobId) # {}
                  => blobsByBlobId(t.blobs, f.blobId) # {}
           /\ \A b \in blobsByBlobId(t.blobs, f.blobId) :
                  b.refCount = refs(t.files, f.blobId)
\* A caller's move of a file onto its own path has been rejected at the patch
\* of the row it had just deleted, and the file is still there with its blob
\* counted once per reference; and a copy of it onto itself succeeds.
C39_Witness ==
    \E c \in Clients : \E f \in files :
        /\ resp[c].call = "transact"
        /\ resp[c].err.code = "NONEXISTENT_DOCUMENT"
        /\ resp[c].err.path = f.path
        /\ blobsByBlobId(blobs, f.blobId) # {}
        /\ refCountOf(blobs, f.blobId) = refs(files, f.blobId)
        /\ transact(CurrentTx, <<SelfOp("copy", f, TRUE)>>, now).err = NoErr

\* ------------------------------------------------------------------------
\* Download URLs
\* ------------------------------------------------------------------------
\* Strings are sequences of characters.  The characters a path is drawn from:
\* a letter, space, parentheses, percent, two digits and the slash.
UrlChars == {"x", " ", "(", ")", "%", "2", "0", "/"}
\* blobIds are crypto.randomUUID() values: hexadecimal digits and hyphens.
UuidChars == {"2", "-"}
MaxUrlPathLen == 3
MaxBlobIdLen == 2
UrlPaths == {<<>>} \cup SeqsUpTo(UrlChars, MaxUrlPathLen)
UrlBlobIds == SeqsUpTo(UuidChars, MaxBlobIdLen)

\* The optional path argument: given or undefined.
NoPathArg == [given |-> FALSE, chars |-> <<>>]
PathArg(s) == [given |-> TRUE, chars |-> s]
PathArgs == {NoPathArg} \cup {PathArg(s) : s \in UrlPaths}

\* The hexadecimal digits that occur in the escapes of these characters.
HexDigits == {"0", "2", "5", "8", "9", "B", "F"}
\* The character with the code h1 h2; codes of ASCII characters outside
\* UrlChars and "+" are one character "other".
byteOf(h1, h2) ==
    IF h1 # "2" THEN "other"
    ELSE CASE h2 = "0" -> " "
           [] h2 = "8" -> "("
           [] h2 = "9" -> ")"
           [] h2 = "5" -> "%"
           [] h2 = "F" -> "/"
           [] h2 = "B" -> "+"
           [] OTHER -> "other"

\* url.searchParams.set serialises a value as application/x-www-form-urlencoded:
\* space becomes "+", letters and digits stay, every other character becomes
\* its percent escape.
formByte(c) ==
    CASE c = " " -> <<"+">>
      [] c = "(" -> <<"%", "2", "8">>
      [] c = ")" -> <<"%", "2", "9">>
      [] c = "%" -> <<"%", "2", "5">>
      [] c = "/" -> <<"%", "2", "F">>
      [] c = "+" -> <<"%", "2", "B">>
      [] OTHER -> <<c>>
RECURSIVE urlencoded(_)
urlencoded(s) == IF s = <<>> THEN <<>> ELSE formByte(Head(s)) \o urlencoded(Tail(s))

\* url.searchParams.get parses the value back: "+" is a space, a percent sign
\* followed by two hexadecimal digits is the character with that code, and
\* anything else stands for itself.
RECURSIVE parseUrlencoded(_)
parseUrlencoded(s) ==
    IF s = <<>> THEN <<>>
    ELSE IF Head(s) = "+" THEN <<" ">> \o parseUrlencoded(Tail(s))
    ELSE IF Head(s) = "%" /\ Len(s) >= 3 /\ s[2] \in HexDigits /\ s[3] \in HexDigits
    THEN <<byteOf(s[2], s[3])>> \o parseUrlencoded(SubSeq(s, 4, Len(s)))
    ELSE <<Head(s)>> \o parseUrlencoded(Tail(s))

\* decodeURIComponent: every percent sign must start an escape of two
\* hexadecimal digits, else it throws URIError; a code of 80 or more needs
\* the continuation bytes of a UTF-8 sequence, which no string this short
\* over these characters has.  "+" stands for itself.
RECURSIVE decodeURIComponent(_)
decodeURIComponent(s) ==
    IF s = <<>> THEN [err |-> "none", chars |-> <<>>]
    ELSE IF Head(s) = "%" THEN
        IF Len(s) >= 3 /\ s[2] \in {"0", "2", "5"} /\ s[3] \in HexDigits
        THEN LET r == decodeURIComponent(SubSeq(s, 4, Len(s))) IN
             IF r.err # "none" THEN r
             ELSE [r EXCEPT !.chars = <<byteOf(s[2], s[3])>> \o @]
        ELSE [err |-> "URIError", chars |-> <<>>]
    ELSE LET r == decodeURIComponent(Tail(s)) IN
         IF r.err # "none" THEN r ELSE [r EXCEPT !.chars = <<Head(s)>> \o @]

siteUrl == "https://example.convex.site"
fsPrefix == <<"/", "fs">>

\* buildDownloadUrl(siteUrl, prefix, blobId, path): the URL's text, the origin
\* followed by the pathname and, when a path is given, the query.
buildDownloadUrl(site, prefix, blobId, path) ==
    <<site>> \o prefix \o <<"/", "blobs", "/">> \o blobId
        \o (IF path.given THEN <<"?", "path", "=">> \o urlencoded(path.chars) ELSE <<>>)

\* new URL(url): the pathname runs from the origin to the first "?", the
\* search is what follows it.
queryStart(url) ==
    IF \E i \in 1..Len(url) : url[i] = "?"
    THEN CHOOSE i \in 1..Len(url) : url[i] = "?" /\ \A j \in 1..(i - 1) : url[j] # "?"
    ELSE Len(url) + 1
pathnameOf(url) == SubSeq(url, 2, queryStart(url) - 1)
searchOf(url) == SubSeq(url, queryStart(url) + 1, Len(url))
\* pathname.split("/").pop(): what follows the last slash.
RECURSIVE lastSegment(_)
lastSegment(s) ==
    IF \A i \in 1..Len(s) : s[i] # "/" THEN s ELSE lastSegment(Tail(s))
\* searchParams.get("path"): the parsed value, or null.
searchParamsGetPath(search) ==
    IF Len(search) >= 2 /\ search[1] = "path" /\ search[2] = "="
    THEN [null |-> FALSE, chars |-> parseUrlencoded(SubSeq(search, 3, Len(search)))]
    ELSE [null |-> TRUE, chars |-> <<>>]

\* parseDownloadUrl(url): the blobId and, for a non-empty path parameter,
\* decodeURIComponent of the value searchParams.get returned.
parseDownloadUrl(url) ==
    LET blobId == lastSegment(pathnameOf(url))
        path == searchParamsGetPath(searchOf(url))
    IN
    IF path.null \/ path.chars = <<>>
    THEN [err |-> "none", blobId |-> blobId, path |-> NoPathArg]
    ELSE LET d == decodeURIComponent(path.chars) IN
         IF d.err # "none" THEN [err |-> d.err, blobId |-> <<>>, path |-> NoPathArg]
         ELSE [err |-> "none", blobId |-> blobId, path |-> PathArg(d.chars)]

\* A caller holds a blobId and, optionally, a path.
InitUrl ==
    /\ files = {}
    /\ blobs = {}
    /\ uploads = {}
    /\ store = {}
    /\ config = NoConfig
    /\ now = 0
    /\ bgc = BgcIdle
    /\ ugc = UgcIdle
    /\ fgc = FgcIdle
    /\ resp = [c \in Clients |-> NoResp]
    /\ \E b \in UrlBlobIds, p \in PathArgs :
           view = [c \in Clients |->
                      IF c = "c1" THEN [op |-> "download", blobId |-> b, path |-> p]
                      ELSE NoView]

BuildDownloadUrl(c) ==
    /\ view[c].op = "download"
    /\ view' = [view EXCEPT ![c] =
                   [op |-> "url", blobId |-> @.blobId, path |-> @.path,
                    url |-> buildDownloadUrl(siteUrl, fsPrefix, @.blobId, @.path)]]
    /\ UNCHANGED <<files, blobs, uploads, store, config, now, bgc, ugc, fgc, resp>>

ParseDownloadUrl(c) ==
    /\ view[c].op = "url"
    /\ view' = [view EXCEPT ![c] =
                   [op |-> "parsed", blobId |-> @.blobId, path |-> @.path,
                    parsed |-> parseDownloadUrl(@.url)]]
    /\ UNCHANGED <<files, blobs, uploads, store, config, now, bgc, ugc, fgc, resp>>

NextUrl ==
    \/ BuildDownloadUrl("c1")
    \/ ParseDownloadUrl("c1")

SpecUrl == InitUrl /\ [][NextUrl]_vars

\* C40: for every blobId and every path, spaces, parentheses and percent
\* signs included, parseDownloadUrl of the URL that buildDownloadUrl made
\* returns the same blobId and the same path, and path undefined when no
\* path was given.
C40_DownloadUrlRoundTrip ==
    \A c \in Clients :
        view[c].op = "parsed" =>
            /\ view[c].parsed.err = "none"
            /\ view[c].parsed.blobId = view[c].blobId
            /\ view[c].parsed.path = view[c].path

====
